---- MODULE Spec2Model ----
(***************************************************************************)
(* A model of tinywasm/wasi: the WasiServer module table, the hot-swap     *)
(* protocol (swapModule), the /m/{name} dispatcher, the Module lifecycle   *)
(* (Load, Init, Drain, Close) and the bus bridge of the HostBuilder.       *)
(*                                                                         *)
(* Strings that the code inspects character by character (module names,    *)
(* the content of rule.txt) are sequences of one-character strings.        *)
(***************************************************************************)
EXTENDS Integers, Sequences, FiniteSets, TLC

----------------------------------------------------------------------------
(* Bounds of the model *)

\* Number of Module objects that Load may create in one behaviour.
MaxInst == 2

\* Number of host subscribe calls a guest makes while it is instantiated.
MaxSubs == 1

\* Length of the rule texts given to parseRule.
MaxText == 3

\* Length of the Only and Except lists of the Rules given to Matches.
MaxList == 2

\* Length of the middleware lists given to applyPipeline.
MaxMws == 3

\* The size of the uint32 address space of a guest memory, scaled down from
\* 2^32: resultPtr + i is computed modulo AddrSpace.
AddrSpace == 8

\* The cap of the response read loop, scaled down from 65536.
BodyLimit == 4

\* StopServer is not called again once it has closed a Module this often.
MaxCloses == 2

\* The capacity of the send channel of a wsConn, scaled down from 256.
SendCap == 2

\* Time is counted in ticks.  The largest drain budget (drainTimeout), the
\* largest sleep hint a guest's drain() returns, and the longest a call of
\* drain() takes.
MaxBudget == 3
MaxHint == 2
MaxCallTime == 1

\* The size in bytes of the larger guest memory the bus callback writes to.
MemCells == 4

\* The number of subscribe calls one guest makes.
MaxAsks == 3

\* The number of cleanups one Module registers before it is closed.
MaxCleanups == 4

----------------------------------------------------------------------------
(* Values *)

\* A nil *Module.
NoMod == 0

\* os.ReadFile of rule.txt fails (the file is absent): no content at all.
NoFile == <<"ENOENT">>

\* Module names: <name>.wasm artifacts and /m/<name> routes.
Names == {<<"a">>, <<"b">>}

\* Contents a rule.txt may have.
RuleTexts == {<<"*">>}

\* Goroutines that run swapModule (StartServer, RestartServer, NewFileEvent
\* from the internal watcher and from the external driver).
SwapThreads == {"s1", "s2"}

\* Goroutines of the HTTP server that run handleMiddlewareDispatch.
DispThreads == {"d1"}

Ids == 1..MaxInst

\* WebSocket connections (wsConn objects), the topics of /ws?topic=<t> and
\* of Broadcast, and message payloads.
Conns == {"c1", "c2"}
Topics == {"t", "u"}
Msgs == {"m1", "m2"}

\* What a guest binary exports (api.Module.ExportedFunction(...) # nil).
EmptyGuest ==
    [init |-> FALSE, drain |-> FALSE, handle |-> FALSE, malloc |-> FALSE,
     on_message |-> FALSE]
FullGuest ==
    [init |-> TRUE, drain |-> TRUE, handle |-> TRUE, malloc |-> TRUE,
     on_message |-> TRUE]
GuestKinds == {EmptyGuest, FullGuest}

----------------------------------------------------------------------------
(* middleware.go: pure functions *)

IsSpace(c) == c \in {" ", "\t", "\n", "\r"}

RECURSIVE TrimLeft(_)
TrimLeft(s) ==
    IF s # <<>> /\ IsSpace(Head(s)) THEN TrimLeft(Tail(s)) ELSE s

RECURSIVE TrimRight(_)
TrimRight(s) ==
    IF s # <<>> /\ IsSpace(s[Len(s)])
    THEN TrimRight(SubSeq(s, 1, Len(s) - 1))
    ELSE s

\* strings.TrimSpace
TrimSpace(s) == TrimRight(TrimLeft(s))

\* strings.Split(s, sep) for a one-character separator: always >= 1 part.
RECURSIVE Split(_, _)
Split(s, sep) ==
    IF \E i \in 1..Len(s) : s[i] = sep
    THEN LET i == CHOOSE k \in 1..Len(s) :
                     s[k] = sep /\ \A j \in 1..(k - 1) : s[j] # sep
         IN  <<SubSeq(s, 1, i - 1)>> \o Split(SubSeq(s, i + 1, Len(s)), sep)
    ELSE <<s>>

EmptyRule == [All |-> FALSE, Only |-> <<>>, Except |-> <<>>]

\* A loop over the parts that forgets to set All for a "-" part.
RECURSIVE parseParts_NoAll(_, _)
parseParts_NoAll(parts, r) ==
    IF parts = <<>> THEN r
    ELSE LET p == TrimSpace(Head(parts))
         IN  parseParts_NoAll(Tail(parts),
                IF p = <<>> THEN r
                ELSE IF Head(p) = "-"
                     THEN [r EXCEPT !.Except = Append(@, Tail(p))]
                     ELSE [r EXCEPT !.Only = Append(@, p)])

\* The loop over the parts in parseRule.
RECURSIVE parseParts(_, _)
parseParts(parts, r) ==
    IF parts = <<>> THEN r
    ELSE LET p == TrimSpace(Head(parts))
         IN  parseParts(Tail(parts),
                IF p = <<>> THEN r
                ELSE IF Head(p) = "-"
                     THEN [r EXCEPT !.All = TRUE, !.Except = Append(@, Tail(p))]
                     ELSE [r EXCEPT !.Only = Append(@, p)])

parseRule(content) ==
    LET c == TrimSpace(content)
    IN  IF c = <<"*">> \/ c = <<>>
        THEN [All |-> TRUE, Only |-> <<>>, Except |-> <<>>]
        ELSE parseParts(Split(c, ","), EmptyRule)

\* A Matches that looks at Only before it looks at All.
Matches_OnlyFirst(rule, routeID) ==
    \/ \E i \in 1..Len(rule.Only) : rule.Only[i] = routeID
    \/ rule.All /\ ~ \E i \in 1..Len(rule.Except) : rule.Except[i] = routeID

\* MiddlewareModule.Matches, on the Rule of the middleware.
Matches(rule, routeID) ==
    IF rule.All
    THEN ~ \E i \in 1..Len(rule.Except) : rule.Except[i] = routeID
    ELSE \E i \in 1..Len(rule.Only) : rule.Only[i] = routeID

\* An applyPipeline that stops at the first middleware that does not match.
RECURSIVE applyPipeline_StopsAtMiss(_, _)
applyPipeline_StopsAtMiss(route, mws) ==
    IF mws = <<>> \/ ~ Matches(Head(mws).Rule, route) THEN <<>>
    ELSE <<Head(mws)>> \o applyPipeline_StopsAtMiss(route, Tail(mws))

\* applyPipeline: the matching middlewares, in registration order.
RECURSIVE applyPipeline(_, _)
applyPipeline(route, mws) ==
    IF mws = <<>> THEN <<>>
    ELSE (IF Matches(Head(mws).Rule, route) THEN <<Head(mws)>> ELSE <<>>)
         \o applyPipeline(route, Tail(mws))

\* A loadRuleFromSourceDir that never finds rule.txt.
loadRuleFromSourceDir_NoRule(files, name) ==
    [rule |-> EmptyRule, ok |-> FALSE]

\* loadRuleFromSourceDir: (Rule, true) when rule.txt can be read.
loadRuleFromSourceDir(files, name) ==
    IF files[name] = NoFile
    THEN [rule |-> EmptyRule, ok |-> FALSE]
    ELSE [rule |-> parseRule(files[name]), ok |-> TRUE]

----------------------------------------------------------------------------
(* State *)

VARIABLES
    modules,      \* WasiServer.modules: endpoint map, name -> *Module (NoMod: no key)
    middlewares,  \* WasiServer.middlewares: ordered list of MiddlewareModule
    ruleFile,     \* file system: modulesDir/<name>/rule.txt, content or NoFile
    nextId,       \* next Module object Load creates
    mods,         \* the Module objects: name, exports, cleanups, lifecycle history
    subs,         \* bus: the subscriptions currently registered (not cancelled)
    pending,      \* bus: deliveries dispatched by Publish whose callback has not run
    spc,          \* swapModule: program counter of each swapping goroutine
    sw,           \* swapModule: locals (name, newMod, oldMod, rule, isMiddleware, err)
    dpc,          \* handleMiddlewareDispatch: program counter of each request
    dp,           \* handleMiddlewareDispatch: locals and the response written
    late,         \* history: guest functions the host invoked on a Module after its Close
    latePub,      \* history: subscriptions already cancelled when a later Publish ran
    afterCancel,  \* history: subscriptions whose on_message started after their cancel
    watcher,      \* WasiServer.watcher # nil: the internal fsnotify watcher runs
    call,         \* a call of a pure function: its name, arguments and result
    hub,          \* wsHub: clients per topic, the send channel of each wsConn
    srv           \* WasiServer: started, externalWatcher, and file event history

vars == <<modules, middlewares, ruleFile, nextId, mods, subs, pending,
          spc, sw, dpc, dp, late, latePub, afterCancel, watcher, call, hub,
          srv>>

\* The variables of the server, which a pure function does not touch.
server == <<modules, middlewares, ruleFile, nextId, mods, subs, pending,
            spc, sw, dpc, dp, late, latePub, afterCancel, watcher, hub, srv>>

\* A Module object that Load has not created yet.
NoModule == [name |-> <<>>, exp |-> EmptyGuest, cleanups |-> <<>>, hist |-> <<>>]

Range(s) == {s[i] : i \in 1..Len(s)}

Count(s, e) == Cardinality({i \in 1..Len(s) : s[i] = e})

\* Module.Close has completed on Module i.
Closed(i) == "close" \in Range(mods[i].hist)

\* Module i has been inserted in the module table.
Published(i) == \E e \in {"pubmw", "pubep"} : e \in Range(mods[i].hist)

\* runtime.Close(ctx) has run on the runtime of Module i (Close, or a failed Load).
RuntimeClosed(i) == Closed(i) \/ "loadfail" \in Range(mods[i].hist)

\* The Modules the middleware list holds under a name.
MwNamed(name) ==
    {middlewares[k].Module : k \in {j \in 1..Len(middlewares) :
                                       mods[middlewares[j].Module].name = name}}

\* The Modules reachable by a lookup of name in the module table.
Registered(name) ==
    (IF modules[name] # NoMod THEN {modules[name]} ELSE {}) \cup MwNamed(name)

InTable(i) == \E n \in Names : i \in Registered(n)

\* The locals of swapModule.  prev, atLoad and seen are history: the Modules
\* registered under name when the call began, whether rule.txt existed when
\* Load ran, and the content loadRuleFromSourceDir read.
NoSwap == [name |-> <<>>, new |-> NoMod, old |-> NoMod, prev |-> {},
           atLoad |-> FALSE, seen |-> NoFile,
           isMw |-> FALSE, rule |-> EmptyRule, ret |-> "none"]

\* swapModule returns: its locals are gone, the caller has the result.
Return(t, ret) ==
    [sw EXCEPT ![t] = [NoSwap EXCEPT !.name = sw[t].name, !.prev = sw[t].prev,
                                     !.ret = ret]]

\* The locals of handleMiddlewareDispatch and the response.  path, called,
\* logged, short and from are history: the request path, the callHandle calls
\* made with their outcomes, the number of "Middleware error" log lines, the
\* middleware that returned a non-zero pointer, and the Module whose memory
\* the body was read from.
NoDispatch == [path |-> <<>>, name |-> <<>>, pipeline |-> <<>>, i |-> 1,
               resultPtr |-> 0, targetMod |-> NoMod, status |-> 0,
               cause |-> "none", called |-> <<>>, logged |-> 0,
               short |-> NoMod, from |-> NoMod]

\* No pure function is being called.
NoCall == [fn |-> "none", arg |-> <<>>, done |-> FALSE, result |-> <<>>]

\* A wsHub with no client: keys are the topics the map h.clients has an
\* entry for, clients the set each holds.  bc is history: the topic and
\* message of the last Broadcast, and a bit that flips at each Broadcast.
NoHub == [keys |-> {},
          clients |-> [t \in Topics |-> {}],
          send |-> [c \in Conns |-> <<>>],
          pump |-> [c \in Conns |-> FALSE],
          bc |-> [topic |-> "", msg |-> "", flip |-> FALSE]]

\* New(): not started, externalWatcher false.  fileEvents, closedByEvent and
\* lateInternal are history: NewFileEvent has been called on the started
\* server, it has found the internal watcher running, and the internal
\* watcher has made a swap start after such a call.  shutdown: StopServer has
\* called httpSrv.Shutdown.
NoSrv == [started |-> FALSE, externalWatcher |-> FALSE,
          fileEvents |-> FALSE, closedByEvent |-> FALSE,
          lateInternal |-> FALSE, shutdown |-> FALSE]

\* New(): empty endpoint map, nil middleware list, no module loaded.
ServerInit ==
    /\ modules = [n \in Names |-> NoMod]
    /\ middlewares = <<>>
    /\ ruleFile \in [Names -> {NoFile}]
    /\ nextId = 1
    /\ mods = [i \in Ids |-> NoModule]
    /\ subs = {}
    /\ pending = {}
    /\ spc = [t \in SwapThreads |-> "idle"]
    /\ sw = [t \in SwapThreads |-> NoSwap]
    /\ dpc = [d \in DispThreads |-> "idle"]
    /\ dp = [d \in DispThreads |-> NoDispatch]
    /\ late = {}
    /\ latePub = {}
    /\ afterCancel = {}
    /\ watcher = FALSE
    /\ hub = NoHub
    /\ srv = NoSrv

Init == ServerInit /\ call = NoCall

----------------------------------------------------------------------------
(* module.go: Module lifecycle *)

AddHist(ms, i, e) == [ms EXCEPT ![i].hist = Append(@, e)]

\* The guest functions invoked on Module i that fall after its Close.
LateCalls(i, fns) == IF Closed(i) THEN fns ELSE {}

\* The subscriptions the cleanups of Module i cancel (sub.Cancel is idempotent).
Cancelled(i) == Range(mods[i].cleanups)

\* A Close that runs no cleanup.
CloseSubs_NoCleanup(i) == subs

\* A Close whose cleanups, run a second time, register the subscriptions again.
CloseSubs_Resubscribes(i) ==
    IF Closed(i) THEN subs \cup Cancelled(i) ELSE subs \ Cancelled(i)

\* Module.Close: run every cleanup, then runtime.Close.
CloseSubs(i) == subs \ Cancelled(i)

\* Module.Drain: the guest functions it calls (drain(), when exported).
DrainCalls(i) == IF mods[i].exp.drain THEN {"drain"} ELSE {}

----------------------------------------------------------------------------
(* wasi.go: swapModule *)

\* Number of Load calls that are under way.
Loading == Cardinality({t \in SwapThreads : spc[t] = "load"})

\* swapModule(name, wasmBytes) is called: by StartServer and RestartServer for
\* every artifact, by NewFileEvent for a written artifact, or directly.
SwapCall(t, name) ==
    /\ spc[t] \in {"idle", "done"}
    /\ nextId + Loading <= MaxInst
    /\ spc' = [spc EXCEPT ![t] = "load"]
    /\ sw' = [sw EXCEPT ![t] = [NoSwap EXCEPT !.name = name,
                                              !.prev = Registered(name)]]
    /\ UNCHANGED <<modules, middlewares, ruleFile, nextId, mods, subs, pending,
                   dpc, dp, late, latePub, afterCancel, watcher, call, hub, srv>>

\* File extensions and event kinds NewFileEvent receives.
WasmExt == <<".", "w", "a", "s", "m">>
GoExt == <<".", "g", "o">>
Extensions == {WasmExt, GoExt}
EventKinds == {"write", "create", "remove"}

\* A first block of NewFileEvent that leaves the watcher alone unless the
\* event is one it acts on.
WatcherAfterEvent_OnlyWhenActing(extension, event) ==
    IF event \in {"write", "create"} /\ extension \in {WasmExt, GoExt}
    THEN FALSE
    ELSE watcher

\* Whether the internal watcher still runs after the first block of
\* NewFileEvent: a running watcher is closed and s.watcher set to nil.
WatcherAfterEvent(extension, event) == FALSE

\* The body of NewFileEvent on goroutine t, called by the internal watcher's
\* goroutine (internal) or by anyone else: the internal watcher is closed; a
\* written or created .wasm file that can be read is swapped in under
\* fileName without its extension; a .go file is handed to the external
\* builder.
FileEvent(t, fileName, extension, event, readable, internal) ==
    /\ spc[t] \in {"idle", "done"}
    /\ watcher' = WatcherAfterEvent(extension, event)
    /\ LET swaps == event \in {"write", "create"} /\ extension = WasmExt
                        /\ readable
       IN  /\ IF swaps
              THEN LET name == SubSeq(fileName, 1, Len(fileName) - Len(extension))
                   IN  /\ nextId + Loading <= MaxInst
                       /\ spc' = [spc EXCEPT ![t] = "load"]
                       /\ sw' = [sw EXCEPT ![t] = [NoSwap EXCEPT
                                                      !.name = name,
                                                      !.prev = Registered(name)]]
              ELSE UNCHANGED <<spc, sw>>
           /\ srv' = [srv EXCEPT
                        !.fileEvents = @ \/ srv.started,
                        !.closedByEvent = @ \/ watcher,
                        !.lateInternal = @ \/ (internal /\ swaps /\ srv.fileEvents)]
    /\ UNCHANGED <<modules, middlewares, ruleFile, nextId, mods, subs, pending,
                   dpc, dp, late, latePub, afterCancel, call, hub>>

\* NewFileEvent(fileName, extension, filePath, event), called on goroutine t
\* by the external driver.
NewFileEvent(t, fileName, extension, event, readable) ==
    FileEvent(t, fileName, extension, event, readable, FALSE)

\* The subscriptions a guest registers by calling the host function subscribe
\* n times while InstantiateModule runs it with the Module in the context.
SubsOf(i, n) == [k \in 1..n |-> <<i, k>>]

\* A failed Load that removes the name from the endpoint map.
LoadFailed_Unregisters(t) ==
    /\ spc' = [spc EXCEPT ![t] = "done"]
    /\ sw' = Return(t, "loaderr")
    /\ modules' = [modules EXCEPT ![sw[t].name] = NoMod]
    /\ UNCHANGED middlewares

\* Load returns an error: the table and every loaded Module stay as they are.
LoadFailed(t) ==
    /\ spc' = [spc EXCEPT ![t] = "done"]
    /\ sw' = Return(t, "loaderr")
    /\ UNCHANGED <<modules, middlewares>>

\* Step 1 of swapModule: Load, outside any lock.
SwapLoad(t) ==
    /\ spc[t] = "load"
    /\ \/ \* wasi/host instantiation or CompileModule fails: no guest code ran
          /\ LoadFailed(t)
          /\ UNCHANGED <<nextId, mods, subs>>
       \/ \* InstantiateModule fails after the guest subscribed: r.Close, m dropped
          /\ \E n \in 1..MaxSubs :
                /\ mods' = [mods EXCEPT ![nextId] =
                               [NoModule EXCEPT
                                   !.name = sw[t].name, !.exp = FullGuest,
                                   !.cleanups = SubsOf(nextId, n),
                                   !.hist = <<"loadfail">>]]
                /\ subs' = subs \cup Range(SubsOf(nextId, n))
          /\ nextId' = nextId + 1
          /\ LoadFailed(t)
       \/ \* Load succeeds
          /\ \E exp \in GuestKinds :
             \E n \in 0..(IF exp.on_message THEN MaxSubs ELSE 0) :
                /\ mods' = [mods EXCEPT ![nextId] =
                               [NoModule EXCEPT
                                   !.name = sw[t].name, !.exp = exp,
                                   !.cleanups = SubsOf(nextId, n)]]
                /\ subs' = subs \cup Range(SubsOf(nextId, n))
          /\ nextId' = nextId + 1
          /\ spc' = [spc EXCEPT ![t] = "init"]
          /\ sw' = [sw EXCEPT ![t].new = nextId,
                              ![t].atLoad = ruleFile[sw[t].name] # NoFile]
          /\ UNCHANGED <<modules, middlewares>>
    /\ UNCHANGED <<ruleFile, pending, dpc, dp, late, latePub, afterCancel, watcher, call, hub, srv>>

\* A swapModule that ignores the error of Module.Init.
AfterInit_IgnoresError(ok) == "classify"

\* Where swapModule goes after Module.Init returned: on to the table swap, or
\* to Close of the new Module when Init failed.
AfterInit(ok) == IF ok THEN "classify" ELSE "closenew"

\* Step 2 of swapModule: Module.Init, outside any lock.  A host subscribe call
\* made by the guest's init finds no Module in its context and has no effect.
SwapInit(t) ==
    /\ spc[t] = "init"
    /\ \E ok \in (IF mods[sw[t].new].exp.init THEN BOOLEAN ELSE {TRUE}) :
          /\ mods' = AddHist(mods, sw[t].new, IF ok THEN "init" ELSE "initerr")
          /\ spc' = [spc EXCEPT ![t] = AfterInit(ok)]
    /\ UNCHANGED <<modules, middlewares, ruleFile, nextId, subs, pending, sw,
                   dpc, dp, late, latePub, afterCancel, watcher, call, hub, srv>>

\* An Init failure path that returns without closing the new Module.
SwapCloseNew_NoClose(t) ==
    /\ spc[t] = "closenew"
    /\ spc' = [spc EXCEPT ![t] = "done"]
    /\ sw' = Return(t, "initerr")
    /\ UNCHANGED <<modules, middlewares, ruleFile, nextId, mods, subs, pending,
                   dpc, dp, late, latePub, afterCancel, watcher, call, hub, srv>>

\* Init failed: newMod.Close(ctx), return err.
SwapCloseNew(t) ==
    /\ spc[t] = "closenew"
    /\ subs' = CloseSubs(sw[t].new)
    /\ mods' = AddHist(mods, sw[t].new, "close")
    /\ spc' = [spc EXCEPT ![t] = "done"]
    /\ sw' = Return(t, "initerr")
    /\ UNCHANGED <<modules, middlewares, ruleFile, nextId, pending, dpc, dp, late, latePub, afterCancel, watcher, call, hub, srv>>

\* Step 3 of swapModule, first half: loadRuleFromSourceDir.
SwapClassify(t) ==
    /\ spc[t] = "classify"
    /\ LET r == loadRuleFromSourceDir(ruleFile, sw[t].name)
       IN  sw' = [sw EXCEPT ![t].isMw = r.ok, ![t].rule = r.rule,
                               ![t].seen = ruleFile[sw[t].name]]
    /\ spc' = [spc EXCEPT ![t] = "publish"]
    /\ UNCHANGED <<modules, middlewares, ruleFile, nextId, mods, subs, pending,
                   dpc, dp, late, latePub, afterCancel, watcher, call, hub, srv>>

\* The index of the first middleware entry whose Module has the name, or 0.
FindMw(name) ==
    IF MwNamed(name) = {} THEN 0
    ELSE CHOOSE k \in 1..Len(middlewares) :
            /\ mods[middlewares[k].Module].name = name
            /\ \A j \in 1..(k - 1) : mods[middlewares[j].Module].name # name

\* The Module the table swap replaces (oldMod), NoMod when there is none.
OldMod(name, isMw) ==
    IF isMw
    THEN (IF FindMw(name) = 0 THEN NoMod ELSE middlewares[FindMw(name)].Module)
    ELSE modules[name]

\* A table swap that appends the middleware entry whatever the list holds.
PublishMw_Appends(name, entry) == Append(middlewares, entry)

\* The middleware list after the find-and-replace-or-append under muMw.
PublishMw(name, entry) ==
    IF FindMw(name) = 0
    THEN Append(middlewares, entry)
    ELSE [middlewares EXCEPT ![FindMw(name)] = entry]

\* Step 3 of swapModule, second half: the table swap under muMw or mu.
SwapPublish(t) ==
    /\ spc[t] = "publish"
    /\ LET name == sw[t].name
           new  == sw[t].new
           old  == OldMod(name, sw[t].isMw)
           entry == [Module |-> new, Rule |-> sw[t].rule]
       IN  /\ IF sw[t].isMw
              THEN /\ middlewares' = PublishMw(name, entry)
                   /\ UNCHANGED modules
              ELSE /\ modules' = [modules EXCEPT ![name] = new]
                   /\ UNCHANGED middlewares
           /\ mods' = LET ev == IF sw[t].isMw THEN "pubmw" ELSE "pubep"
                      IN  IF old = NoMod
                          THEN AddHist(mods, new, ev)
                          ELSE AddHist(AddHist(mods, new, ev), old, "unpub")
           /\ sw' = [sw EXCEPT ![t].old = old]
           /\ spc' = [spc EXCEPT ![t] = "drain"]
    /\ UNCHANGED <<ruleFile, nextId, subs, pending, dpc, dp, late, latePub, afterCancel, watcher, call, hub, srv>>

\* Step 4 of swapModule: oldMod.Drain(ctx, s.drainTimeout), outside the lock.
SwapDrainOld(t) ==
    /\ spc[t] = "drain"
    /\ sw[t].old # NoMod
    /\ mods' = AddHist(mods, sw[t].old, "drain")
    /\ late' = late \cup LateCalls(sw[t].old, DrainCalls(sw[t].old))
    /\ spc' = [spc EXCEPT ![t] = "close"]
    /\ UNCHANGED <<modules, middlewares, ruleFile, nextId, subs, pending, sw,
                   dpc, dp, latePub, afterCancel, watcher, call, hub, srv>>

\* Step 4 of swapModule when oldMod is nil: return nil.
SwapNoOld(t) ==
    /\ spc[t] = "drain"
    /\ sw[t].old = NoMod
    /\ spc' = [spc EXCEPT ![t] = "done"]
    /\ sw' = Return(t, "ok")
    /\ UNCHANGED <<modules, middlewares, ruleFile, nextId, mods, subs, pending,
                   dpc, dp, late, latePub, afterCancel, watcher, call, hub, srv>>

\* Step 4 of swapModule: oldMod.Close(ctx), then return nil.
SwapCloseOld(t) ==
    /\ spc[t] = "close"
    /\ subs' = CloseSubs(sw[t].old)
    /\ mods' = AddHist(mods, sw[t].old, "close")
    /\ spc' = [spc EXCEPT ![t] = "done"]
    /\ sw' = Return(t, "ok")
    /\ UNCHANGED <<modules, middlewares, ruleFile, nextId, pending, dpc, dp, late, latePub, afterCancel, watcher, call, hub, srv>>

\* The developer creates, edits or removes modulesDir/<name>/rule.txt.
WriteRuleFile(name, content) ==
    /\ ruleFile[name] # content
    /\ ruleFile' = [ruleFile EXCEPT ![name] = content]
    /\ UNCHANGED <<modules, middlewares, nextId, mods, subs, pending, spc, sw,
                   dpc, dp, late, latePub, afterCancel, watcher, call, hub, srv>>

----------------------------------------------------------------------------
(* wasi.go: handleMiddlewareDispatch *)

\* The guest functions callHandle invokes on Module m: malloc (when exported)
\* for the request blob, then handle through Module.Handle.
HandleCalls(m) ==
    IF ~ mods[m].exp.handle THEN {}
    ELSE (IF mods[m].exp.malloc THEN {"malloc"} ELSE {}) \cup {"handle"}

\* What callHandle(m) can return: "zero" is (0, nil), "ptr" a non-zero
\* pointer, "err" an error.  A call into a closed runtime returns an error.
HandleOutcomes(m) ==
    IF ~ mods[m].exp.handle THEN {"zero"}
    ELSE IF RuntimeClosed(m) THEN {"err"}
    ELSE {"zero", "ptr", "err"}

\* Why callHandle(m) returned an error.
ErrCause(m) == IF RuntimeClosed(m) THEN "closed" ELSE "guest"

\* The request is answered: the handler returns with the response written.
Answer(d, status, cause) ==
    [dp[d] EXCEPT !.status = status, !.cause = cause, !.i = 1,
                  !.resultPtr = 0, !.targetMod = NoMod]

\* The values of r.URL.Path the mux hands to the handler registered for
\* "/m/"; "/m//x" is the decoded path of a request for /m/%2Fx.
DispatchPrefix == <<"/", "m", "/">>
Paths ==
    {DispatchPrefix} \cup {DispatchPrefix \o n : n \in Names}
        \cup {DispatchPrefix \o n \o <<"/", "x">> : n \in Names}
        \cup {DispatchPrefix \o <<"/", "x">>}

\* strings.TrimPrefix(s, prefix)
TrimPrefix(s, prefix) ==
    IF Len(s) >= Len(prefix) /\ SubSeq(s, 1, Len(prefix)) = prefix
    THEN SubSeq(s, Len(prefix) + 1, Len(s))
    ELSE s

\* strings.Index(s, c) for a one-character c, counted from 0; -1 when absent.
Index(s, c) ==
    IF \E i \in 1..Len(s) : s[i] = c
    THEN (CHOOSE i \in 1..Len(s) : s[i] = c /\ \A j \in 1..(i - 1) : s[j] # c) - 1
    ELSE -1

\* The name the handler dispatches on: the path after "/m/", cut at the
\* first "/".
NameOf(path) ==
    LET name == TrimPrefix(path, DispatchPrefix)
    IN  IF name # <<>> /\ Index(name, "/") # -1
        THEN SubSeq(name, 1, Index(name, "/"))
        ELSE name

\* s.modules[name]: nil when the map has no such key.
Lookup(name) == IF name \in DOMAIN modules THEN modules[name] ELSE NoMod

\* A request for a path under /m/ arrives; an empty name is answered 400.
DispatchRequest(d, path) ==
    /\ dpc[d] \in {"idle", "done"}
    /\ IF TrimPrefix(path, DispatchPrefix) = <<>>
       THEN /\ dp' = [dp EXCEPT ![d] =
                         [NoDispatch EXCEPT !.path = path, !.status = 400]]
            /\ dpc' = [dpc EXCEPT ![d] = "done"]
       ELSE /\ dp' = [dp EXCEPT ![d] =
                         [NoDispatch EXCEPT !.path = path, !.name = NameOf(path)]]
            /\ dpc' = [dpc EXCEPT ![d] = "pipeline"]
    /\ UNCHANGED <<modules, middlewares, ruleFile, nextId, mods, subs, pending,
                   spc, sw, late, latePub, afterCancel, watcher, call, hub, srv>>

\* 1. Pipeline: the snapshot of the matching middlewares under muMw.RLock.
DispatchPipeline(d) ==
    /\ dpc[d] = "pipeline"
    /\ LET pl == applyPipeline(dp[d].name, middlewares)
       IN  /\ dp' = [dp EXCEPT ![d].pipeline = pl, ![d].i = 1]
           /\ dpc' = [dpc EXCEPT ![d] = IF pl = <<>> THEN "lookup" ELSE "mw"]
    /\ UNCHANGED <<modules, middlewares, ruleFile, nextId, mods, subs, pending,
                   spc, sw, late, latePub, afterCancel, watcher, call, hub, srv>>

\* A pipeline loop that does not break on a non-zero pointer.
AfterMiddleware_NoBreak(out, last) == IF last THEN "lookup" ELSE "mw"

\* A pipeline loop that gives up on the first middleware error.
AfterMiddleware_ErrorEnds(out, last) ==
    IF out = "ptr" THEN "respond"
    ELSE IF last \/ out = "err" THEN "lookup"
    ELSE "mw"

\* Where the pipeline loop goes after callHandle(mw.Module): an error is
\* logged and skipped (continue), a non-zero pointer ends the loop (break).
AfterMiddleware(out, last) ==
    IF out = "ptr" THEN "respond"
    ELSE IF last THEN "lookup"
    ELSE "mw"

\* 1. Pipeline: one iteration of the loop, callHandle(mw.Module).
DispatchMiddleware(d) ==
    /\ dpc[d] = "mw"
    /\ LET m == dp[d].pipeline[dp[d].i].Module
           last == dp[d].i = Len(dp[d].pipeline)
       IN  /\ late' = late \cup LateCalls(m, HandleCalls(m))
           /\ \E out \in HandleOutcomes(m) :
                /\ dp' = [dp EXCEPT
                            ![d].called = Append(@, [m |-> m, out |-> out]),
                            ![d].logged = IF out = "err" THEN @ + 1 ELSE @,
                            ![d].resultPtr = IF out = "ptr" THEN 1 ELSE @,
                            ![d].targetMod = IF out = "ptr" THEN m ELSE @,
                            ![d].short = IF out = "ptr" THEN m ELSE @,
                            ![d].i = IF out = "ptr" THEN @ ELSE @ + 1]
                /\ dpc' = [dpc EXCEPT ![d] = AfterMiddleware(out, last)]
    /\ UNCHANGED <<modules, middlewares, ruleFile, nextId, mods, subs, pending,
                   spc, sw, latePub, afterCancel, watcher, call, hub, srv>>

\* 2. Target Module: the endpoint lookup under mu.RLock; 404 when absent.
DispatchLookup(d) ==
    /\ dpc[d] = "lookup"
    /\ IF Lookup(dp[d].name) = NoMod
       THEN /\ dp' = [dp EXCEPT ![d] = Answer(d, 404, "none")]
            /\ dpc' = [dpc EXCEPT ![d] = "done"]
       ELSE /\ dp' = [dp EXCEPT ![d].targetMod = Lookup(dp[d].name)]
            /\ dpc' = [dpc EXCEPT ![d] = "endpoint"]
    /\ UNCHANGED <<modules, middlewares, ruleFile, nextId, mods, subs, pending,
                   spc, sw, late, latePub, afterCancel, watcher, call, hub, srv>>

\* 2. Target Module: callHandle(mod); an error is answered 500.
DispatchEndpoint(d) ==
    /\ dpc[d] = "endpoint"
    /\ LET m == dp[d].targetMod
       IN  /\ late' = late \cup LateCalls(m, HandleCalls(m))
           /\ \E out \in HandleOutcomes(m) :
                LET logd == [dp[d] EXCEPT
                               !.called = Append(@, [m |-> m, out |-> out])]
                IN  IF out = "err"
                    THEN /\ dp' = [dp EXCEPT ![d] =
                                      [logd EXCEPT !.status = 500,
                                                   !.cause = ErrCause(m),
                                                   !.i = 1, !.targetMod = NoMod]]
                         /\ dpc' = [dpc EXCEPT ![d] = "done"]
                    ELSE /\ dp' = [dp EXCEPT ![d] =
                                      [logd EXCEPT !.resultPtr =
                                                IF out = "ptr" THEN 1 ELSE 0]]
                         /\ dpc' = [dpc EXCEPT ![d] = "respond"]
    /\ UNCHANGED <<modules, middlewares, ruleFile, nextId, mods, subs, pending,
                   spc, sw, latePub, afterCancel, watcher, call, hub, srv>>

\* 3. Response: the body read from the target's memory, or 204 No Content.
DispatchRespond(d) ==
    /\ dpc[d] = "respond"
    /\ LET body == dp[d].resultPtr # 0 /\ dp[d].targetMod # NoMod
       IN  dp' = [dp EXCEPT ![d] =
                     [Answer(d, IF body THEN 200 ELSE 204, "none") EXCEPT
                         !.from = IF body THEN dp[d].targetMod ELSE NoMod]]
    /\ dpc' = [dpc EXCEPT ![d] = "done"]
    /\ UNCHANGED <<modules, middlewares, ruleFile, nextId, mods, subs, pending,
                   spc, sw, late, latePub, afterCancel, watcher, call, hub, srv>>

----------------------------------------------------------------------------
(* host.go: the bus bridge *)

\* Every subscription a guest has registered so far.
AllSubs == UNION {Range(mods[i].cleanups) : i \in Ids}

\* The canceller of the subscription has returned: Close of its Module ran it.
CancelReturned(s) == Closed(s[1])

\* bus.Publish(topic, msg): a delivery is dispatched to every subscription
\* registered at this moment; the callbacks run later, on goroutines of the bus.
BusPublish ==
    /\ pending = {}
    /\ pending' = subs
    /\ latePub' = latePub \cup {s \in AllSubs : CancelReturned(s)}
    /\ UNCHANGED <<modules, middlewares, ruleFile, nextId, mods, subs, spc, sw,
                   dpc, dp, late, afterCancel, watcher, call, hub, srv>>

\* The guest functions the subscribe callback invokes on Module m.
CallbackCalls(m) ==
    IF mods[m].exp.malloc THEN {"malloc", "on_message"} ELSE {}

\* A delivery reaches its subscription: the callback registered by subscribe
\* runs, unless the subscription was cancelled in between (no handler starts
\* after Cancel returned).
BusDeliver(sub) ==
    /\ sub \in pending
    /\ pending' = pending \ {sub}
    /\ late' = IF sub \in subs
               THEN late \cup LateCalls(sub[1], CallbackCalls(sub[1]))
               ELSE late
    /\ afterCancel' = IF sub \in subs /\ sub \in latePub
                          /\ "on_message" \in CallbackCalls(sub[1])
                      THEN afterCancel \cup {sub}
                      ELSE afterCancel
    /\ UNCHANGED <<modules, middlewares, ruleFile, nextId, mods, subs, spc, sw,
                   dpc, dp, latePub, watcher, call, hub, srv>>

----------------------------------------------------------------------------

\* The swapping goroutines, the developer editing rule files, and the bus.
Next ==
    \/ \E t \in SwapThreads, n \in Names : SwapCall(t, n)
    \/ \E t \in SwapThreads, n \in Names, x \in Extensions, e \in EventKinds,
          r \in BOOLEAN : NewFileEvent(t, n \o x, x, e, r)
    \/ \E t \in SwapThreads : SwapLoad(t)
    \/ \E t \in SwapThreads : SwapInit(t)
    \/ \E t \in SwapThreads : SwapCloseNew(t)
    \/ \E t \in SwapThreads : SwapClassify(t)
    \/ \E t \in SwapThreads : SwapPublish(t)
    \/ \E t \in SwapThreads : SwapDrainOld(t)
    \/ \E t \in SwapThreads : SwapNoOld(t)
    \/ \E t \in SwapThreads : SwapCloseOld(t)
    \/ \E n \in Names, c \in RuleTexts \cup {NoFile} : WriteRuleFile(n, c)
    \/ BusPublish
    \/ \E s \in pending : BusDeliver(s)

Spec == Init /\ [][Next]_vars

\* The goroutine that serves hot reloads while the HTTP server dispatches.
Reloader == {"s1"}

\* Hot reloads, one at a time, while requests are dispatched.
NextServe ==
    \/ \E t \in Reloader, n \in Names : SwapCall(t, n)
    \/ \E t \in Reloader, n \in Names, x \in Extensions, e \in EventKinds,
          r \in BOOLEAN : NewFileEvent(t, n \o x, x, e, r)
    \/ \E t \in Reloader : SwapLoad(t)
    \/ \E t \in Reloader : SwapInit(t)
    \/ \E t \in Reloader : SwapCloseNew(t)
    \/ \E t \in Reloader : SwapClassify(t)
    \/ \E t \in Reloader : SwapPublish(t)
    \/ \E t \in Reloader : SwapDrainOld(t)
    \/ \E t \in Reloader : SwapNoOld(t)
    \/ \E t \in Reloader : SwapCloseOld(t)
    \/ \E n \in Names, c \in RuleTexts \cup {NoFile} : WriteRuleFile(n, c)
    \/ \E d \in DispThreads, p \in Paths : DispatchRequest(d, p)
    \/ \E d \in DispThreads : DispatchPipeline(d)
    \/ \E d \in DispThreads : DispatchMiddleware(d)
    \/ \E d \in DispThreads : DispatchLookup(d)
    \/ \E d \in DispThreads : DispatchEndpoint(d)
    \/ \E d \in DispThreads : DispatchRespond(d)
    \/ BusPublish
    \/ \E s \in pending : BusDeliver(s)

SpecServe == Init /\ [][NextServe]_vars

----------------------------------------------------------------------------
(* wasi.go: StartServer and the internal watcher *)

\* The goroutine StartServer starts for the internal watcher, and the
\* goroutine of the external driver that calls NewFileEvent.
WatcherGoroutine == "s1"
Driver == "s2"

\* StartServer, once the artifacts found in outputDir have been swapped in:
\* unless externalWatcher is set, the fsnotify watcher is created on
\* outputDir (ok) and its goroutine started; then the HTTP server.
StartServer(externalWatcher, ok) ==
    /\ ~ srv.started
    /\ \A t \in SwapThreads : spc[t] \in {"idle", "done"}
    /\ watcher' = (~ externalWatcher /\ ok)
    /\ srv' = [srv EXCEPT !.started = TRUE,
                          !.externalWatcher = externalWatcher]
    /\ UNCHANGED <<modules, middlewares, ruleFile, nextId, mods, subs, pending,
                   spc, sw, dpc, dp, late, latePub, afterCancel, call, hub>>

\* The watcher's goroutine receives a Write event for <name>.wasm from the
\* running watcher and calls NewFileEvent(name.wasm, ".wasm", path, "write").
\* A closed watcher delivers nothing: its channels are closed and the
\* goroutine has returned.
WatcherEvent(name, readable) ==
    /\ watcher
    /\ FileEvent(WatcherGoroutine, name \o WasmExt, WasmExt, "write", readable, TRUE)

----------------------------------------------------------------------------
(* wasi.go: StopServer *)

\* The orders in which ranging over the map s.modules can collect its Modules.
Snapshots ==
    LET S == {modules[n] : n \in Names} \ {NoMod}
    IN  {q \in [1..Cardinality(S) -> S] : Range(q) = S}

\* No StopServer is under way.
Stopped == call.fn = "none" \/ (call.fn = "StopServer" /\ call.done)

\* StopServer is at the step pc of its loop over the snapshot.
Stopping(pc) ==
    call.fn = "StopServer" /\ ~ call.done /\ call.result.pc = pc

\* The Module the loop of StopServer is at.
StopMod == call.arg[call.result.i]

\* The Modules the server holds: those of the endpoint map and those of the
\* middleware list.
Held ==
    ({modules[n] : n \in Names} \ {NoMod})
        \cup {middlewares[k].Module : k \in 1..Len(middlewares)}

\* StopServer is called: the watcher is closed and the Modules of s.modules
\* are collected under mu.RLock.  With nothing to close it goes on to
\* httpSrv.Shutdown and returns.  held is history: the Modules the server
\* held at the call.
StopServer ==
    /\ Stopped
    /\ \A n \in Names :
          modules[n] # NoMod => Count(mods[modules[n]].hist, "close") < MaxCloses
    /\ watcher' = FALSE
    /\ \E q \in Snapshots :
          /\ call' = [fn |-> "StopServer", arg |-> q, done |-> q = <<>>,
                      result |-> [i |-> 1, pc |-> "drain"], held |-> Held]
          /\ srv' = [srv EXCEPT !.shutdown = @ \/ (srv.started /\ q = <<>>)]
    /\ UNCHANGED <<modules, middlewares, ruleFile, nextId, mods, subs, pending,
                   spc, sw, dpc, dp, late, latePub, afterCancel, hub>>

\* StopServer: mod.Drain(ctx, s.drainTimeout).
StopDrain ==
    /\ Stopping("drain")
    /\ mods' = AddHist(mods, StopMod, "drain")
    /\ late' = late \cup LateCalls(StopMod, DrainCalls(StopMod))
    /\ call' = [call EXCEPT !.result.pc = "close"]
    /\ UNCHANGED <<modules, middlewares, ruleFile, nextId, subs, pending,
                   spc, sw, dpc, dp, latePub, afterCancel, watcher, hub, srv>>

\* StopServer: mod.Close(ctx); after the last Module, httpSrv.Shutdown and
\* return.
StopClose ==
    /\ Stopping("close")
    /\ subs' = CloseSubs(StopMod)
    /\ mods' = AddHist(mods, StopMod, "close")
    /\ call' = [call EXCEPT !.result = [i |-> @.i + 1, pc |-> "drain"],
                            !.done = call.result.i = Len(call.arg)]
    /\ srv' = [srv EXCEPT !.shutdown = @ \/ (srv.started /\
                                               call.result.i = Len(call.arg))]
    /\ UNCHANGED <<modules, middlewares, ruleFile, nextId, pending,
                   spc, sw, dpc, dp, late, latePub, afterCancel, watcher, hub>>

\* Hot reloads, one at a time, and shutdowns of the server.
NextStop ==
    \/ \E t \in Reloader, n \in Names : SwapCall(t, n)
    \/ \E t \in Reloader : SwapLoad(t)
    \/ \E t \in Reloader : SwapInit(t)
    \/ \E t \in Reloader : SwapCloseNew(t)
    \/ \E t \in Reloader : SwapClassify(t)
    \/ \E t \in Reloader : SwapPublish(t)
    \/ \E t \in Reloader : SwapDrainOld(t)
    \/ \E t \in Reloader : SwapNoOld(t)
    \/ \E t \in Reloader : SwapCloseOld(t)
    \/ \E n \in Names, c \in RuleTexts \cup {NoFile} : WriteRuleFile(n, c)
    \/ \E e \in BOOLEAN, ok \in BOOLEAN : StartServer(e, ok)
    \/ StopServer
    \/ StopDrain
    \/ StopClose
    \/ BusPublish
    \/ \E s \in pending : BusDeliver(s)

SpecStop == Init /\ [][NextStop]_vars

----------------------------------------------------------------------------
(* wasi.go: the started server *)

\* A started server: hot reloads from the internal watcher and from an
\* external driver.
NextWatch ==
    \/ \E n \in Names : SwapCall(WatcherGoroutine, n)
    \/ \E e \in BOOLEAN, ok \in BOOLEAN : StartServer(e, ok)
    \/ \E n \in Names, r \in BOOLEAN : WatcherEvent(n, r)
    \/ \E n \in Names, x \in Extensions, e \in EventKinds, r \in BOOLEAN :
          NewFileEvent(Driver, n \o x, x, e, r)
    \/ \E t \in SwapThreads : SwapLoad(t)
    \/ \E t \in SwapThreads : SwapInit(t)
    \/ \E t \in SwapThreads : SwapCloseNew(t)
    \/ \E t \in SwapThreads : SwapClassify(t)
    \/ \E t \in SwapThreads : SwapPublish(t)
    \/ \E t \in SwapThreads : SwapDrainOld(t)
    \/ \E t \in SwapThreads : SwapNoOld(t)
    \/ \E t \in SwapThreads : SwapCloseOld(t)

SpecWatch == Init /\ [][NextWatch]_vars

----------------------------------------------------------------------------
(* module.go: Module.Drain, with its loop and the clock *)

\* What one call of the guest's drain() gives: a sleep hint, no result value
\* at all ("void"), or an error.
Hints == 0..MaxHint
DrainResults ==
    {[kind |-> "hint", ms |-> h] : h \in Hints}
        \cup {[kind |-> "void", ms |-> 0], [kind |-> "err", ms |-> 0]}

\* The locals of a Drain call and of its caller.  elapsed is time.Since(start);
\* calls, hints and timedOut are history: the drain() calls made, what they
\* returned, and whether the budget check ended the loop.
NoDrain == [pc |-> "enter", elapsed |-> 0, calls |-> 0, hints |-> <<>>,
            timedOut |-> FALSE, ret |-> "none"]

InitDrain ==
    /\ ServerInit
    /\ call \in {[fn |-> "Drain", arg |-> [exported |-> e, timeout |-> T],
                   done |-> FALSE, result |-> NoDrain] :
                      e \in BOOLEAN, T \in 0..MaxBudget}

\* Drain returns ret to its caller.
DrainReturns(ret, timedOut) ==
    [call EXCEPT !.done = TRUE, !.result.pc = "returned",
                 !.result.ret = ret, !.result.timedOut = timedOut]

\* A budget check that never ends the loop.
OverBudget_Never(elapsed, timeout) == FALSE

\* time.Since(start) > timeout
OverBudget(elapsed, timeout) == elapsed > timeout

\* Drain is entered: without a drain export it returns nil at once.
DrainEnter ==
    /\ call.fn = "Drain" /\ call.result.pc = "enter"
    /\ call' = IF call.arg.exported
               THEN [call EXCEPT !.result.pc = "call"]
               ELSE DrainReturns("nil", FALSE)
    /\ UNCHANGED server

\* A loop that goes on to the budget check whatever drain() returned.
AfterDrainCall_IgnoresZero(r) == IF r.kind = "err" THEN "err" ELSE "check"

\* Where the loop goes after m.drainFn.Call returned r: an error is
\* returned, no result or a hint of 0 ends the loop, a positive hint goes on
\* to the budget check.
AfterDrainCall(r) ==
    IF r.kind = "err" THEN "err"
    ELSE IF r.kind = "void" \/ r.ms = 0 THEN "nil"
    ELSE "check"

\* m.drainFn.Call(ctx): the guest's drain() runs for d ticks and returns r.
DrainCall ==
    /\ call.fn = "Drain" /\ call.result.pc = "call"
    /\ \E r \in DrainResults, d \in 0..MaxCallTime :
          LET c == [call EXCEPT !.result.calls = @ + 1,
                                !.result.hints = Append(@, r),
                                !.result.elapsed = @ + d]
              to == AfterDrainCall(r)
          IN  call' = IF to = "check"
                      THEN [c EXCEPT !.result.pc = "check"]
                      ELSE [c EXCEPT !.done = TRUE, !.result.pc = "returned",
                                     !.result.ret = to]
    /\ UNCHANGED server

\* The budget check: over budget the loop ends, otherwise the sleep follows.
DrainCheck ==
    /\ call.fn = "Drain" /\ call.result.pc = "check"
    /\ call' = IF OverBudget(call.result.elapsed, call.arg.timeout)
               THEN DrainReturns("nil", TRUE)
               ELSE [call EXCEPT !.result.pc = "sleep"]
    /\ UNCHANGED server

\* time.Sleep(ms) with the hint of the last call.
DrainSleep ==
    /\ call.fn = "Drain" /\ call.result.pc = "sleep"
    /\ call' = [call EXCEPT
                  !.result.elapsed = @ + call.result.hints[Len(call.result.hints)].ms,
                  !.result.pc = "call"]
    /\ UNCHANGED server

\* The caller (swapModule step 4, StopServer) ignores what Drain returned and
\* calls Close on the Module.
DrainCallerCloses ==
    /\ call.fn = "Drain" /\ call.result.pc = "returned"
    /\ call' = [call EXCEPT !.result.pc = "closed"]
    /\ UNCHANGED server

NextDrain ==
    \/ DrainEnter
    \/ DrainCall
    \/ DrainCheck
    \/ DrainSleep
    \/ DrainCallerCloses

SpecDrain == InitDrain /\ [][NextDrain]_vars

----------------------------------------------------------------------------
(* host.go: the callback subscribe registers with the bus, step by step *)

\* Two deliveries to the subscriptions of one guest, each on a goroutine of
\* the bus.
Deliveries == {"v1", "v2"}

\* What the guest's allocator does: "fresh" hands out memory after what it
\* handed out before, "fixed" hands out offset 0 at every call.
Allocators == {"fresh", "fixed"}

\* The locals of one run of the callback.  calls and seen are history: the
\* guest functions called with their arguments, and the bytes on_message
\* found at (ptr, len).
NoCallback == [pc |-> "start", ptr |-> 0, calls |-> <<>>, seen |-> <<>>]

InitCallback ==
    /\ ServerInit
    /\ call \in {[fn |-> "callback",
                   arg |-> [malloc |-> ma, alloc |-> al, allocator |-> k,
                            size |-> n,
                            payload |-> [d \in Deliveries |->
                                            IF d = "v1" THEN p1 ELSE <<2, 2>>]],
                   done |-> FALSE,
                   result |-> [mem |-> [a \in 1..n |-> 0], brk |-> 0,
                               sub |-> TRUE,
                               cb |-> [d \in Deliveries |-> NoCallback]]] :
                      ma \in BOOLEAN, al \in BOOLEAN, k \in Allocators,
                      n \in {MemCells \div 2, MemCells},
                      p1 \in {<<>>, <<1>>}}

\* The allocation function subscribe resolved: malloc, else alloc, else nil.
MallocFn == IF call.arg.malloc THEN "malloc"
            ELSE IF call.arg.alloc THEN "alloc"
            ELSE "nil"

\* A callback whose early return cancels the subscription.
SubAfterDrop_Cancels(sub) == FALSE

\* Whether the subscription is registered at the bus after the callback
\* returned without calling on_message: the return touches nothing.
SubAfterDrop(sub) == sub

\* One run of the callback is at step pc.
CallbackAt(d, pc) == call.fn = "callback" /\ call.result.cb[d].pc = pc

\* The bus runs the callback of a registered subscription for a message:
\* without allocation function it returns.
CallbackStart(d) ==
    /\ CallbackAt(d, "start")
    /\ call.result.sub
    /\ call' = IF MallocFn = "nil"
               THEN [call EXCEPT !.result.cb[d].pc = "end",
                                 !.result.sub = SubAfterDrop(@)]
               ELSE [call EXCEPT !.result.cb[d].pc = "malloc"]
    /\ UNCHANGED server

\* malloc.Call(bgCtx, len(msg.Payload)): on an error the callback returns,
\* otherwise ptr is the offset the guest's allocator gave.
CallbackMalloc(d) ==
    /\ CallbackAt(d, "malloc")
    /\ LET L == Len(call.arg.payload[d])
           c == [call EXCEPT !.result.cb[d].calls = Append(@, <<MallocFn, L>>)]
       IN  \E ok \in BOOLEAN :
              call' = IF ~ ok
                      THEN [c EXCEPT !.result.cb[d].pc = "end",
                                     !.result.sub = SubAfterDrop(@)]
                      ELSE [c EXCEPT
                              !.result.cb[d].pc = "write",
                              !.result.cb[d].ptr =
                                  IF call.arg.allocator = "fresh"
                                  THEN call.result.brk ELSE 0,
                              !.result.brk = @ + L]
    /\ UNCHANGED server

\* A write that puts the payload at offset 0 whatever malloc returned.
WriteAt_Zero(mem, ptr, payload) ==
    [a \in 1..Len(mem) |->
        IF a \in 1..Len(payload) THEN payload[a] ELSE mem[a]]

\* m.Memory().Write(ptr, payload): the memory after a write in range.
WriteAt(mem, ptr, payload) ==
    [a \in 1..Len(mem) |->
        IF a \in (ptr + 1)..(ptr + Len(payload)) THEN payload[a - ptr] ELSE mem[a]]

\* m.Memory().Write(ptr, msg.Payload): out of range the callback returns.
CallbackWrite(d) ==
    /\ CallbackAt(d, "write")
    /\ LET cb == call.result.cb[d]
           payload == call.arg.payload[d]
       IN  call' = IF cb.ptr + Len(payload) > call.arg.size
                   THEN [call EXCEPT !.result.cb[d].pc = "end",
                                     !.result.sub = SubAfterDrop(@)]
                   ELSE [call EXCEPT
                           !.result.mem = WriteAt(@, cb.ptr, payload),
                           !.result.cb[d].pc = "on_message"]
    /\ UNCHANGED server

\* onMessage.Call(bgCtx, ptr, len(msg.Payload)); its error is ignored.
CallbackOnMessage(d) ==
    /\ CallbackAt(d, "on_message")
    /\ LET cb == call.result.cb[d]
           L == Len(call.arg.payload[d])
       IN  call' = [call EXCEPT
                     !.result.cb[d].calls = Append(@, <<"on_message", cb.ptr, L>>),
                     !.result.cb[d].seen =
                         [k \in 1..L |-> call.result.mem[cb.ptr + k]],
                     !.result.cb[d].pc = "end"]
    /\ UNCHANGED server

NextCallback ==
    \/ \E d \in Deliveries : CallbackStart(d)
    \/ \E d \in Deliveries : CallbackMalloc(d)
    \/ \E d \in Deliveries : CallbackWrite(d)
    \/ \E d \in Deliveries : CallbackOnMessage(d)

SpecCallback == InitCallback /\ [][NextCallback]_vars

----------------------------------------------------------------------------
(* host.go: the host function subscribe, called by a guest the host runs *)

\* The guest calls of the host during which the guest can call subscribe.
Phases == {"instantiate", "init", "handle", "on_message"}

\* Whether the context of the guest call carries the Module under
\* moduleKey: Load puts it in the context of InstantiateModule only; Init is
\* called with swapModule's context.Background(), handle with r.Context(),
\* on_message with the callback's context.Background().
CtxHasModule(during) == during = "instantiate"

\* One guest from Load on.  asked, logged and received are history: the
\* subscribe calls made, the error lines, the topics on_message was called
\* for.
InitSubscribe ==
    /\ ServerInit
    /\ call \in {[fn |-> "guest", arg |-> [on_message |-> e], done |-> FALSE,
                   result |-> [pc |-> "instantiate", cleanups |-> <<>>,
                               asked |-> <<>>, logged |-> 0,
                               received |-> <<>>]] : e \in BOOLEAN}

\* The host runs the guest call `during` at this moment.
Running(during) ==
    /\ call.fn = "guest"
    /\ CASE during = "instantiate" -> call.result.pc = "instantiate"
         [] during = "init" -> call.result.pc = "init"
         [] during = "handle" -> call.result.pc = "serving"
         [] during = "on_message" -> /\ call.result.pc = "serving"
                                     /\ call.result.cleanups # <<>>

\* subscribe(topic, handler) called by the guest during a guest call: without
\* Module in the context or without export on_message an error is logged;
\* otherwise the bus subscription is made and its canceller appended to the
\* Module's cleanups.
HostSubscribe(during, topic) ==
    /\ Running(during)
    /\ Len(call.result.asked) < MaxAsks
    /\ LET c == [call EXCEPT !.result.asked =
                                 Append(@, [during |-> during, topic |-> topic])]
       IN  call' = IF CtxHasModule(during) /\ call.arg.on_message
                   THEN [c EXCEPT !.result.cleanups = Append(@, topic)]
                   ELSE [c EXCEPT !.result.logged = @ + 1]
    /\ UNCHANGED server

\* Load returns and swapModule calls Init; Init returns and the Module is
\* published.
GuestAdvance ==
    /\ call.fn = "guest"
    /\ call.result.pc \in {"instantiate", "init"}
    /\ call' = [call EXCEPT !.result.pc =
                               IF @ = "instantiate" THEN "init" ELSE "serving"]
    /\ UNCHANGED server

\* A message published on topic while the Module serves: on_message runs for
\* each subscription of the guest on that topic.
GuestPublish(topic) ==
    /\ call.fn = "guest"
    /\ call.result.pc = "serving"
    /\ Len(call.result.received) < MaxAsks
    /\ \E k \in 1..Len(call.result.cleanups) : call.result.cleanups[k] = topic
    /\ call' = [call EXCEPT !.result.received = Append(@, topic)]
    /\ UNCHANGED server

NextSubscribe ==
    \/ \E during \in Phases, topic \in Topics : HostSubscribe(during, topic)
    \/ GuestAdvance
    \/ \E topic \in Topics : GuestPublish(topic)

SpecSubscribe == InitSubscribe /\ [][NextSubscribe]_vars

----------------------------------------------------------------------------
(* module.go: Module.Close, cleanup by cleanup *)

\* The cancellers a Module can hold, named by the subscription they cancel.
Cancellers == 1..MaxCleanups

\* A Module under instantiation with no cleanup yet.  ran is history: the
\* cleanups Close has run, in the order it ran them.
InitClose ==
    /\ ServerInit
    /\ call = [fn |-> "Close", arg |-> <<>>, done |-> FALSE,
               result |-> [pc |-> "register", cleanups |-> <<>>, k |-> 0,
                           ran |-> <<>>, runtimeClosed |-> FALSE]]

\* subscribe appends the canceller of a new subscription to m.cleanups.
RegisterCleanup(c) ==
    /\ call.fn = "Close"
    /\ call.result.pc = "register"
    /\ \A k \in 1..Len(call.result.cleanups) : call.result.cleanups[k] # c
    /\ call' = [call EXCEPT !.result.cleanups = Append(@, c)]
    /\ UNCHANGED server

\* Close is called: the range loop starts at the first element.
CloseEnter ==
    /\ call.fn = "Close"
    /\ call.result.pc = "register"
    /\ call' = [call EXCEPT !.result.pc = "range", !.result.k = 1]
    /\ UNCHANGED server

\* One iteration of `for _, cleanup := range m.cleanups { cleanup() }`, or
\* m.runtime.Close(ctx) after the last.
CloseStep ==
    /\ call.fn = "Close"
    /\ call.result.pc = "range"
    /\ LET r == call.result
       IN  call' = IF r.k <= Len(r.cleanups)
                   THEN [call EXCEPT !.result.ran = Append(@, r.cleanups[r.k]),
                                     !.result.k = @ + 1]
                   ELSE [call EXCEPT !.result.pc = "end",
                                     !.result.runtimeClosed = TRUE,
                                     !.done = TRUE]
    /\ UNCHANGED server

NextClose ==
    \/ \E c \in Cancellers : RegisterCleanup(c)
    \/ CloseEnter
    \/ CloseStep

SpecClose == InitClose /\ [][NextClose]_vars

----------------------------------------------------------------------------
(* wasi.go: the locks s.mu and s.muMw around the guest calls *)

\* One goroutine in swapModule, one in handleMiddlewareDispatch, one of the
\* bus in the subscribe callback.
LockThreads == {"s1", "d1", "b1"}

\* Statements: a guest call, a host statement, or an operation on a lock.
Guest(fn) == [op |-> "guest", arg |-> fn]
Host(what) == [op |-> "host", arg |-> what]
Lock(l) == [op |-> "Lock", arg |-> l]
Unlock(l) == [op |-> "Unlock", arg |-> l]
RLock(l) == [op |-> "RLock", arg |-> l]
RUnlock(l) == [op |-> "RUnlock", arg |-> l]

\* A swapModule that releases the table lock after Drain and Close of the
\* old Module.
swapModule_UnlockAfterDrain(hubNil, loadOk, initOk, isMiddleware, hasOld) ==
    LET l == IF isMiddleware THEN "muMw" ELSE "mu"
    IN  <<Guest("start"), Guest("init"), Host("loadRule"), Lock(l),
          Host("replace")>>
        \o (IF hasOld THEN <<Guest("drain"), Host("Close")>> ELSE <<>>)
        \o <<Unlock(l)>>

\* The statements swapModule executes, for each way its branches can go.
swapModule(hubNil, loadOk, initOk, isMiddleware, hasOld) ==
    LET l == IF isMiddleware THEN "muMw" ELSE "mu"
    IN  (IF hubNil THEN <<Lock("mu"), Host("wsHub"), Unlock("mu")>> ELSE <<>>)
        \o <<Guest("start")>>
        \o (IF ~ loadOk THEN <<>>
            ELSE <<Guest("init")>>
                 \o (IF ~ initOk THEN <<Host("Close")>>
                     ELSE <<Host("loadRule"), Lock(l), Host("replace"),
                            Unlock(l)>>
                          \o (IF hasOld
                              THEN <<Guest("drain"), Host("Close")>>
                              ELSE <<>>)))

\* callHandle: malloc for the request blob, then handle.
callHandle == <<Guest("malloc"), Guest("handle")>>

\* The statements handleMiddlewareDispatch executes for a pipeline of n
\* middlewares of which the last returns a pointer (hit) or none does.
handleMiddlewareDispatch(n, hit, found) ==
    <<RLock("muMw"), Host("applyPipeline"), RUnlock("muMw")>>
    \o (IF n = 0 THEN <<>> ELSE callHandle)
    \o (IF n > 0 /\ hit THEN <<>>
        ELSE <<RLock("mu"), Host("lookup"), RUnlock("mu")>>
             \o (IF found THEN callHandle ELSE <<>>))
    \o <<Host("respond")>>

\* The statements of the subscribe callback that reach the guest.
busCallback == <<Guest("malloc"), Guest("on_message")>>

\* ran is history: the guest calls and host statements executed, each with
\* the locks its goroutine held.
InitLocks ==
    /\ ServerInit
    /\ call \in {[fn |-> "locks",
                   arg |-> [s1 |-> swapModule(hn, lo, io, mw, old),
                            d1 |-> handleMiddlewareDispatch(n, hit, found),
                            b1 |-> busCallback],
                   done |-> FALSE,
                   result |-> [pc |-> [t \in LockThreads |-> 1],
                               held |-> [t \in LockThreads |-> {}],
                               ran |-> {}]] :
                      hn \in BOOLEAN, lo \in BOOLEAN, io \in BOOLEAN,
                      mw \in BOOLEAN, old \in BOOLEAN,
                      n \in 0..1, hit \in BOOLEAN, found \in BOOLEAN}

\* The statement goroutine t is at, when it has one left.
AtStatement(t) ==
    /\ call.fn = "locks"
    /\ call.result.pc[t] <= Len(call.arg[t])

Statement(t) == call.arg[t][call.result.pc[t]]

\* Whether some goroutine holds lock l in the mode.
HeldBy(l, mode) ==
    \E u \in LockThreads : [lock |-> l, mode |-> mode] \in call.result.held[u]

\* Lock and RLock of sync.RWMutex: a writer waits for every holder, a reader
\* for the writer.
LockAcquire(t) ==
    /\ AtStatement(t)
    /\ Statement(t).op \in {"Lock", "RLock"}
    /\ LET l == Statement(t).arg
           mode == IF Statement(t).op = "Lock" THEN "w" ELSE "r"
       IN  /\ ~ HeldBy(l, "w")
           /\ mode = "w" => ~ HeldBy(l, "r")
           /\ call' = [call EXCEPT
                         !.result.held[t] = @ \cup {[lock |-> l, mode |-> mode]},
                         !.result.pc[t] = @ + 1]
    /\ UNCHANGED server

\* Unlock and RUnlock.
LockRelease(t) ==
    /\ AtStatement(t)
    /\ Statement(t).op \in {"Unlock", "RUnlock"}
    /\ call' = [call EXCEPT
                  !.result.held[t] = {h \in @ : h.lock # Statement(t).arg},
                  !.result.pc[t] = @ + 1]
    /\ UNCHANGED server

\* A guest call or a host statement of goroutine t.
LockRun(t) ==
    /\ AtStatement(t)
    /\ Statement(t).op \in {"guest", "host"}
    /\ call' = [call EXCEPT
                  !.result.ran = @ \cup {[t |-> t, op |-> Statement(t).op,
                                          arg |-> Statement(t).arg,
                                          held |-> call.result.held[t]]},
                  !.result.pc[t] = @ + 1]
    /\ UNCHANGED server

NextLocks ==
    \/ \E t \in LockThreads : LockAcquire(t)
    \/ \E t \in LockThreads : LockRelease(t)
    \/ \E t \in LockThreads : LockRun(t)

SpecLocks == InitLocks /\ [][NextLocks]_vars

----------------------------------------------------------------------------
(* host.go: publish and log, reading their arguments from guest memory *)

\* m.Memory().Read(offset, length): ok is false when the region is not
\* inside the memory.
MemoryRead(mem, offset, length) ==
    IF offset + length <= Len(mem)
    THEN [buf |-> SubSeq(mem, offset + 1, offset + length), ok |-> TRUE]
    ELSE [buf |-> <<>>, ok |-> FALSE]

\* readString: "" for length 0 and for a region outside the memory.
readString(mem, offset, length) ==
    IF length = 0 THEN <<>>
    ELSE IF ~ MemoryRead(mem, offset, length).ok THEN <<>>
    ELSE MemoryRead(mem, offset, length).buf

\* readBytes: nil (here the empty sequence) for length 0 and for a region
\* outside the memory, else a copy of the region.
readBytes(mem, offset, length) ==
    IF length = 0 THEN <<>>
    ELSE IF ~ MemoryRead(mem, offset, length).ok THEN <<>>
    ELSE MemoryRead(mem, offset, length).buf

\* The offsets and lengths a guest passes.
Regions == [ptr : 0..(MemCells \div 2), len : 0..(MemCells \div 2)]

NoRegion == [ptr |-> 0, len |-> 0]

\* A guest with a memory of one or two bytes about to call a host function.
\* bus and sink are history: what reached bus.Publish and the logger.
InitHost ==
    /\ ServerInit
    /\ call \in {[fn |-> "host", arg |-> [mem |-> m, topic |-> NoRegion,
                                          payload |-> NoRegion,
                                          msg |-> NoRegion],
                   done |-> FALSE,
                   result |-> [bus |-> <<>>, sink |-> <<>>]] :
                      m \in {<<1>>, <<1, 2>>}}

\* publish(topicPtr, topicLen, payloadPtr, payloadLen) called by the guest.
HostPublish(topic, payload) ==
    /\ call.fn = "host" /\ ~ call.done
    /\ call' = [call EXCEPT
                  !.arg.topic = topic, !.arg.payload = payload,
                  !.done = TRUE,
                  !.result.bus = Append(@,
                      [topic |-> readString(call.arg.mem, topic.ptr, topic.len),
                       payload |-> readBytes(call.arg.mem, payload.ptr,
                                             payload.len)])]
    /\ UNCHANGED server

\* log(msgPtr, msgLen) called by the guest.
HostLog(msg) ==
    /\ call.fn = "host" /\ ~ call.done
    /\ call' = [call EXCEPT
                  !.arg.msg = msg,
                  !.done = TRUE,
                  !.result.sink = Append(@, readString(call.arg.mem, msg.ptr,
                                                       msg.len))]
    /\ UNCHANGED server

NextHost ==
    \/ \E topic \in Regions, payload \in Regions : HostPublish(topic, payload)
    \/ \E msg \in Regions : HostLog(msg)

SpecHost == InitHost /\ [][NextHost]_vars

----------------------------------------------------------------------------
(* ws_hub.go: wsHub *)

\* The variables of the server other than the hub.
noHub == <<modules, middlewares, ruleFile, nextId, mods, subs, pending,
           spc, sw, dpc, dp, late, latePub, afterCancel, watcher, call, srv>>

\* A lookup that returns the clients of every topic.
ClientsOf_Everyone(topic) == UNION {hub.clients[t] : t \in Topics}

\* h.clients[topic]: the clients registered under a topic, none when the map
\* has no such key.
ClientsOf(topic) == IF topic \in hub.keys THEN hub.clients[topic] ELSE {}

\* The connection is registered under some topic.
IsRegistered(c) == \E t \in Topics : c \in hub.clients[t]

\* A send that is made whatever the channel holds.
TrySend_Unbounded(q, msg) == Append(q, msg)

\* select { case client.send <- msg: default: }: the channel after it.
TrySend(q, msg) == IF Len(q) < SendCap THEN Append(q, msg) ELSE q

\* handleWS: GET /ws?topic=<t> on a new connection.  Without a topic it
\* answers 400; otherwise a wsConn with an empty send channel is registered
\* and its write pump started.
HandleWS(c, topic) ==
    /\ ~ IsRegistered(c)
    /\ IF topic = ""
       THEN UNCHANGED hub
       ELSE hub' = [hub EXCEPT !.keys = @ \cup {topic},
                               !.clients[topic] = @ \cup {c},
                               !.send[c] = <<>>,
                               !.pump[c] = TRUE]
    /\ UNCHANGED noHub

\* An unregister that leaves the topic's entry in the map when its last
\* client goes.
unregister_KeepsKey(h, topic, conn) ==
    IF topic \in h.keys
    THEN [h EXCEPT !.clients[topic] = @ \ {conn}]
    ELSE h

\* unregister(topic, conn): the hub after it.  The client is deleted from the
\* topic's set, and the topic's entry from the map when the set is empty.
unregister(h, topic, conn) ==
    IF topic \in h.keys
    THEN [h EXCEPT !.clients[topic] = @ \ {conn},
                   !.keys = IF h.clients[topic] \ {conn} = {}
                            THEN @ \ {topic} ELSE @]
    ELSE h

\* unregister(topic, conn): by handleWS when the read loop of the connection
\* ends (close frame or error), or by any other caller.  The send channel is
\* not closed.
Unregister(topic, c) ==
    /\ hub' = unregister(hub, topic, c)
    /\ UNCHANGED noHub

\* writePump: one message is taken from the send channel and written to the
\* connection; the pump returns when the write fails.
WritePump(c, ok) ==
    /\ hub.pump[c]
    /\ hub.send[c] # <<>>
    /\ hub' = [hub EXCEPT !.send[c] = Tail(@), !.pump[c] = ok]
    /\ UNCHANGED noHub

\* Broadcast(topic, msg), under mu.RLock.
Broadcast(topic, msg) ==
    /\ hub' = [hub EXCEPT
                 !.send = [c \in Conns |->
                             IF c \in ClientsOf(topic)
                             THEN TrySend(hub.send[c], msg)
                             ELSE hub.send[c]],
                 !.bc = [topic |-> topic, msg |-> msg, flip |-> ~ @.flip]]
    /\ UNCHANGED noHub

\* WebSocket clients come and go while messages are broadcast.
NextHub ==
    \/ \E c \in Conns, t \in Topics \cup {""} : HandleWS(c, t)
    \/ \E c \in Conns, t \in Topics : Unregister(t, c)
    \/ \E c \in Conns, ok \in BOOLEAN : WritePump(c, ok)
    \/ \E t \in Topics \cup {"none"}, m \in Msgs : Broadcast(t, m)

SpecHub == Init /\ [][NextHub]_vars

----------------------------------------------------------------------------
(* middleware.go: calls of the pure functions on enumerated arguments *)

SeqsUpTo(S, n) == UNION {[1..k -> S] : k \in 0..n}

\* The characters of a rule.txt.
RuleAlphabet == {"a", "b", ",", "-", " ", "*"}

\* Contents of rule.txt given to parseRule.
Texts == SeqsUpTo(RuleAlphabet, MaxText)

\* Route names given to Matches and applyPipeline.
Routes == {<<"a">>, <<"b">>, <<"c">>}

\* Rules given to Matches: any combination of the three fields.
Rules ==
    [All : BOOLEAN, Only : SeqsUpTo(Names, MaxList),
     Except : SeqsUpTo(Names, MaxList)]

\* Middleware lists given to applyPipeline.
MwEntries ==
    [Module : Ids,
     Rule : {parseRule(<<"*">>), parseRule(<<"a">>), parseRule(<<"-", "a">>),
             parseRule(<<"b">>)}]
MwLists == SeqsUpTo(MwEntries, MaxMws)

RECURSIVE Join(_, _)
Join(tokens, sep) ==
    IF tokens = <<>> THEN <<>>
    ELSE IF Len(tokens) = 1 THEN Head(tokens)
    ELSE Head(tokens) \o <<sep>> \o Join(Tail(tokens), sep)

\* A Rule written back in the rule grammar: "*" for the rule that matches
\* everything, otherwise its names and its "-"names, separated by commas.
Stringify(rule) ==
    IF rule.All /\ rule.Except = <<>> THEN <<"*">>
    ELSE Join(rule.Only \o [k \in 1..Len(rule.Except) |-> <<"-">> \o rule.Except[k]],
              ",")

\* One call is about to be made, on arguments drawn from the sets above.
InitRules ==
    /\ ServerInit
    /\ \/ call \in {[fn |-> "parseRule", arg |-> t, done |-> FALSE,
                     result |-> EmptyRule] : t \in Texts}
       \/ call \in {[fn |-> "Matches", arg |-> [rule |-> r, route |-> x],
                     done |-> FALSE, result |-> FALSE] :
                        r \in Rules, x \in Routes}
       \/ call \in {[fn |-> "applyPipeline", arg |-> [route |-> x, mws |-> m],
                     done |-> FALSE, result |-> <<>>] :
                        x \in Routes, m \in MwLists}

CallParseRule ==
    /\ call.fn = "parseRule" /\ ~ call.done
    /\ call' = [call EXCEPT !.done = TRUE, !.result = parseRule(call.arg)]
    /\ UNCHANGED server

\* The Rule of a finished parseRule call is written back and parsed again.
CallReparse ==
    /\ call.fn = "parseRule" /\ call.done
    /\ call' = [fn |-> "reparse", arg |-> call.arg, done |-> TRUE,
                result |-> parseRule(Stringify(call.result))]
    /\ UNCHANGED server

CallMatches ==
    /\ call.fn = "Matches" /\ ~ call.done
    /\ call' = [call EXCEPT !.done = TRUE,
                            !.result = Matches(call.arg.rule, call.arg.route)]
    /\ UNCHANGED server

CallApplyPipeline ==
    /\ call.fn = "applyPipeline" /\ ~ call.done
    /\ call' = [call EXCEPT !.done = TRUE,
                            !.result = applyPipeline(call.arg.route, call.arg.mws)]
    /\ UNCHANGED server

NextRules ==
    \/ CallParseRule
    \/ CallReparse
    \/ CallMatches
    \/ CallApplyPipeline

SpecRules == InitRules /\ [][NextRules]_vars

----------------------------------------------------------------------------
(* wasi.go: the response read of handleMiddlewareDispatch, on its own *)

\* The bytes of a guest memory: 0 is NUL.
Bytes == {0, 1, 2}

\* Guest memories: one smaller than the address space, one filling it.
MemSizes == {AddrSpace \div 2, AddrSpace}
Memories == UNION {[1..n -> Bytes] : n \in MemSizes}

\* mem.ReadByte(offset): ok is false outside the memory.
ReadByte(mem, offset) ==
    IF offset < Len(mem) THEN [b |-> mem[offset + 1], ok |-> TRUE]
    ELSE [b |-> 0, ok |-> FALSE]

\* The loop for i := uint32(0); i < 65536; i++ from iteration i on.
RECURSIVE ReadLoop(_, _, _, _)
ReadLoop(mem, resultPtr, i, buf) ==
    IF i >= BodyLimit THEN buf
    ELSE LET r == ReadByte(mem, (resultPtr + i) % AddrSpace)
         IN  IF ~ r.ok \/ r.b = 0 THEN buf
             ELSE ReadLoop(mem, resultPtr, i + 1, Append(buf, r.b))

\* 3. Response, for a dispatch resolved to a Module with memory mem.
Response(mem, resultPtr) ==
    IF resultPtr # 0
    THEN [status |-> 200, body |-> ReadLoop(mem, resultPtr, 0, <<>>)]
    ELSE [status |-> 204, body |-> <<>>]

InitBody ==
    /\ ServerInit
    /\ call \in {[fn |-> "Response", arg |-> [mem |-> m, resultPtr |-> q],
                   done |-> FALSE, result |-> [status |-> 0, body |-> <<>>]] :
                      m \in Memories, q \in 0..(AddrSpace - 1)}

CallResponse ==
    /\ call.fn = "Response" /\ ~ call.done
    /\ call' = [call EXCEPT !.done = TRUE,
                            !.result = Response(call.arg.mem, call.arg.resultPtr)]
    /\ UNCHANGED server

NextBody == CallResponse

SpecBody == InitBody /\ [][NextBody]_vars

----------------------------------------------------------------------------
(* Properties *)

\* Position of the first occurrence of e in s, 0 when absent.
First(s, e) ==
    IF e \in Range(s) THEN CHOOSE k \in 1..Len(s) :
                             s[k] = e /\ \A j \in 1..(k - 1) : s[j] # e
    ELSE 0

\* The Modules of a name whose Init succeeded.
Inited(name) ==
    {i \in 1..(nextId - 1) :
        mods[i].name = name /\ "init" \in Range(mods[i].hist)}

Newest(S) == CHOOSE i \in S : \A j \in S : j <= i

\* Every swapModule call that was made has returned nil.
AllReturnedOk ==
    \A t \in SwapThreads : spc[t] = "idle" \/ (spc[t] = "done" /\ sw[t].ret = "ok")

\* The step of goroutine t from program counter a to program counter b.
Step(t, a, b) == spc[t] = a /\ spc'[t] = b

\* Module i is in the endpoint map or the middleware list of the next state.
InTableNext(i) ==
    \/ \E n \in Names : modules'[n] = i
    \/ \E k \in 1..Len(middlewares') : middlewares'[k].Module = i

\* C1: once every swap call has returned successfully, the instance loaded
\* most recently under a name is reachable by a lookup of that name, also
\* when calls for the same name overlapped.
C1_NewestIsReachable ==
    AllReturnedOk =>
        \A n \in Names : Inited(n) # {} => Newest(Inited(n)) \in Registered(n)

\* C2: when a swap returns successfully, every instance registered under the
\* name before the call was taken out of the table, then drained, then closed.
C2_PreviousDrainedThenClosed ==
    \A t \in SwapThreads :
        (spc[t] = "done" /\ sw[t].ret = "ok") =>
            \A p \in sw[t].prev :
                LET h == mods[p].hist
                IN  /\ First(h, "unpub") # 0
                    /\ First(h, "unpub") < First(h, "drain")
                    /\ First(h, "drain") < First(h, "close")

\* C3: an instance is in the module table only after its Init returned nil,
\* and Init ran exactly once on every instance that was ever in the table.
C3_InitOnceBeforeVisible ==
    \A i \in Ids :
        /\ InTable(i) => Published(i)
        /\ Published(i) =>
              /\ mods[i].hist[1] = "init"
              /\ Count(mods[i].hist, "init") + Count(mods[i].hist, "initerr") = 1

C3_Witness ==
    \E i \in Ids : InTable(i) /\ mods[i].exp.init /\ ~ Closed(i)

\* C4: a swap whose Load fails leaves the endpoint map, the middleware list
\* and every Module loaded before untouched (none drained, none closed), and
\* returns the load error.
C4_LoadFailureLeavesTable ==
    [][\A t \in SwapThreads :
          Step(t, "load", "done") =>
              /\ modules' = modules
              /\ middlewares' = middlewares
              /\ \A i \in 1..(nextId - 1) : mods'[i] = mods[i]
              /\ sw'[t].ret = "loaderr"]_vars

C4_Witness ==
    \E t \in SwapThreads :
        /\ spc[t] = "done" /\ sw[t].ret = "loaderr"
        /\ sw[t].prev # {}
        /\ \A p \in sw[t].prev :
              /\ p \in Registered(sw[t].name)
              /\ ~ \E e \in {"drain", "close", "unpub"} : e \in Range(mods[p].hist)

\* C5: a swap whose Init fails closes the new instance and returns the error;
\* the new instance is never in the endpoint map or the middleware list, and
\* the table and every other Module stay untouched (none drained, none closed).
C5_InitFailureClosesNew ==
    [][/\ \A i \in Ids :
             "initerr" \in Range(mods'[i].hist) => ~ InTableNext(i)
       /\ \A t \in SwapThreads :
             /\ (Step(t, "init", "closenew") \/ Step(t, "closenew", "done")) =>
                   /\ modules' = modules
                   /\ middlewares' = middlewares
                   /\ \A i \in Ids \ {sw[t].new} : mods'[i] = mods[i]
             /\ Step(t, "closenew", "done") =>
                   /\ "close" \in Range(mods'[sw[t].new].hist)
                   /\ Range(mods[sw[t].new].cleanups) \cap subs' = {}
                   /\ sw'[t].ret = "initerr"]_vars

C5_Witness ==
    \E t \in SwapThreads :
        /\ spc[t] = "done" /\ sw[t].ret = "initerr"
        /\ sw[t].prev # {}
        /\ \A p \in sw[t].prev :
              /\ p \in Registered(sw[t].name)
              /\ ~ \E e \in {"drain", "close", "unpub"} : e \in Range(mods[p].hist)
        /\ \E i \in Ids : "initerr" \in Range(mods[i].hist) /\ Closed(i)

\* C6: no dispatch is answered 500 because a swap closed the endpoint
\* instance the dispatch had captured.
C6_NoFailureBySwap ==
    \A d \in DispThreads :
        ~ (dpc[d] = "done" /\ dp[d].status = 500 /\ dp[d].cause = "closed")

\* C7: no name is at once a key of the endpoint map and the name of a Module
\* in the middleware list.
C7_OneSlotPerName ==
    \A n \in Names : ~ (modules[n] # NoMod /\ MwNamed(n) # {})

\* C8, as stated: the new instance goes to the middleware list if and only if
\* rule.txt existed when Load ran.
C8_SlotByRuleAtLoad ==
    \A t \in SwapThreads :
        spc[t] = "drain" =>
            ("pubmw" \in Range(mods[sw[t].new].hist) <=> sw[t].atLoad)

\* C8, amended: the table swap puts the new instance in the middleware list,
\* with the Rule parsed from rule.txt, if and only if rule.txt could be read
\* when swapModule classified the module (after Init returned nil); otherwise
\* it puts it in the endpoint map under the name.
C8_SlotByRuleAtClassify ==
    [][\A t \in SwapThreads :
          Step(t, "publish", "drain") =>
              IF sw[t].seen # NoFile
              THEN /\ \E k \in 1..Len(middlewares') :
                         middlewares'[k] =
                             [Module |-> sw[t].new, Rule |-> parseRule(sw[t].seen)]
                   /\ modules' = modules
              ELSE /\ modules'[sw[t].name] = sw[t].new
                   /\ middlewares' = middlewares]_vars

C8_Witness ==
    \E t \in SwapThreads :
        /\ spc[t] = "drain"
        /\ sw[t].seen # NoFile /\ ~ sw[t].atLoad
        /\ sw[t].new \in MwNamed(sw[t].name)

\* C9: once the canceller of a subscription has returned, a later publish
\* starts no on_message for that subscription.
C9_NoOnMessageAfterCancel == afterCancel = {}

C9_Witness ==
    \E s \in latePub : mods[s[1]].exp.on_message /\ pending # {}

\* C10: after Close of a Module has completed the host invokes none of its
\* guest functions.
C10_NoGuestCallAfterClose == late = {}

\* The j-th smallest element of a set of indices.
KthOf(S, j) == CHOOSE k \in S : Cardinality({i \in S : i <= k}) = j

\* C17: applyPipeline(r, M) is the subsequence of M, in the order of M, of
\* exactly the entries that match r.
C17_PipelineIsMatchingSubsequence ==
    (call.fn = "applyPipeline" /\ call.done) =>
        LET M   == call.arg.mws
            out == call.result
            idx == {k \in 1..Len(M) : Matches(M[k].Rule, call.arg.route)}
        IN  /\ Len(out) = Cardinality(idx)
            /\ \A j \in 1..Len(out) : out[j] = M[KthOf(idx, j)]

C17_Witness ==
    /\ call.fn = "applyPipeline" /\ call.done
    /\ Len(call.arg.mws) = 3 /\ Len(call.result) = 2
    /\ ~ Matches(call.arg.mws[2].Rule, call.arg.route)
    /\ call.result[1] # call.result[2]

\* C18: Matches(route) is true exactly when (All and route not in Except) or
\* (not All and route in Only); with All the content of Only changes nothing.
C18_MatchesByAllExceptOnly ==
    (call.fn = "Matches" /\ call.done) =>
        LET rule == call.arg.rule
            x    == call.arg.route
        IN  /\ call.result = (IF rule.All THEN x \notin Range(rule.Except)
                                          ELSE x \in Range(rule.Only))
            /\ rule.All =>
                  \A o \in SeqsUpTo(Names, MaxList) :
                      Matches([rule EXCEPT !.Only = o], x) = call.result

C18_Witness ==
    /\ call.fn = "Matches" /\ call.done
    /\ call.arg.rule.All
    /\ call.arg.route \in Range(call.arg.rule.Only)
    /\ call.arg.route \in Range(call.arg.rule.Except)
    /\ call.result = FALSE

\* The parts of a rule text that name a route, and those that exclude one.
IsBare(p) == p # <<>> /\ Head(p) # "-"
IsNegated(p) == p # <<>> /\ Head(p) = "-"

\* C19: a trimmed content "*" or "" parses to All with empty lists; otherwise
\* the bare tokens, trimmed, are Only in their order, the rests of the tokens
\* that start with "-" are Except in their order, and All is set exactly when
\* there is such a token.
C19_ParseRuleByTokens ==
    (call.fn = "parseRule" /\ call.done) =>
        LET c    == TrimSpace(call.arg)
            raw  == Split(c, ",")
            toks == [k \in 1..Len(raw) |-> TrimSpace(raw[k])]
            neg  == SelectSeq(toks, IsNegated)
        IN  IF c = <<"*">> \/ c = <<>>
            THEN call.result = [All |-> TRUE, Only |-> <<>>, Except |-> <<>>]
            ELSE /\ call.result.Only = SelectSeq(toks, IsBare)
                 /\ call.result.Except = [k \in 1..Len(neg) |-> Tail(neg[k])]
                 /\ call.result.All = (neg # <<>>)

C19_Witness ==
    /\ call.fn = "parseRule" /\ call.done
    /\ call.result.All
    /\ call.result.Only # <<>> /\ call.result.Except # <<>>

\* C20: a Rule written back in the rule grammar and parsed again matches
\* exactly the routes the Rule of the original text matches.
C20_RoundTripMatchesSameRoutes ==
    call.fn = "reparse" =>
        \A x \in Texts : Matches(call.result, x) = Matches(parseRule(call.arg), x)

\* The name segment of a request path: what lies between "/m/" and the next
\* "/" (or the end of the path).
Segment(path) ==
    LET rest == SubSeq(path, Len(DispatchPrefix) + 1, Len(path))
        stop == IF \E k \in 1..Len(rest) : rest[k] = "/"
                THEN CHOOSE k \in 1..Len(rest) :
                        rest[k] = "/" /\ \A j \in 1..(k - 1) : rest[j] # "/"
                ELSE Len(rest) + 1
    IN  SubSeq(rest, 1, stop - 1)

\* The callHandle calls of request d that were made on pipeline entries.
MwCalls(d) ==
    {k \in 1..Len(dp[d].called) : k <= Len(dp[d].pipeline)}

\* C13: the matching middlewares are invoked one at a time in pipeline
\* order; the first one returning a non-zero pointer ends the pipeline, no
\* later middleware and no endpoint is invoked for the request, and the
\* response body is read from that middleware's memory.
C13_PipelineInOrderFirstPointerEnds ==
    \A d \in DispThreads :
        LET r == dp[d]
        IN  /\ Len(r.called) <= Len(r.pipeline) + 1
            /\ \A k \in MwCalls(d) : r.called[k].m = r.pipeline[k].Module
            /\ \A k \in MwCalls(d) :
                 r.called[k].out = "ptr" =>
                    /\ Len(r.called) = k
                    /\ r.short = r.called[k].m
                    /\ dpc[d] \in {"respond", "done"}
                    /\ dpc[d] = "done" => r.status = 200 /\ r.from = r.short
            /\ r.short # NoMod =>
                 \E k \in MwCalls(d) : r.called[k].out = "ptr"

\* The first of two matching middlewares returned a pointer and the request
\* was answered from it, the second one never having been invoked.
C13_Witness ==
    \E d \in DispThreads :
        /\ dpc[d] = "done"
        /\ Len(dp[d].pipeline) = 2
        /\ Len(dp[d].called) = 1
        /\ dp[d].short = dp[d].pipeline[1].Module
        /\ dp[d].from = dp[d].short

\* C14: a request whose name segment is empty is answered 400 and invokes
\* no module; 404 is answered only when no middleware short-circuited.
C14_EmptyNameIs400 ==
    \A d \in DispThreads :
        /\ (dpc[d] # "idle" /\ Segment(dp[d].path) = <<>>) =>
              dpc[d] = "done" /\ dp[d].status = 400 /\ dp[d].called = <<>>
        /\ (dpc[d] = "done" /\ dp[d].status = 404) => dp[d].short = NoMod

\* C15: an error from a middleware's Handle is logged and the request goes
\* on to the next middleware or to the endpoint lookup as if the middleware
\* had passed; an error from the endpoint's Handle is answered 500, and 500
\* is answered for nothing else.
C15_MiddlewareErrorPassesEndpointError500 ==
    \A d \in DispThreads :
        LET r == dp[d]
            n == Len(r.pipeline)
            c == Len(r.called)
        IN  /\ r.logged = Cardinality({k \in MwCalls(d) : r.called[k].out = "err"})
            /\ \A k \in MwCalls(d) :
                 (r.called[k].out = "err" /\ c = k) =>
                    IF k < n
                    THEN dpc[d] = "mw" /\ r.i = k + 1
                    ELSE \/ dpc[d] \in {"lookup", "endpoint"}
                         \/ dpc[d] = "done" /\ r.status = 404
            /\ dpc[d] = "done" =>
                 (r.status = 500 <=> (c = n + 1 /\ r.called[c].out = "err"))

\* A middleware failed and was logged, the endpoint was still invoked, and
\* the endpoint's own failure was answered 500.
C15_Witness ==
    \E d \in DispThreads :
        /\ dpc[d] = "done"
        /\ dp[d].status = 500
        /\ Len(dp[d].pipeline) = 1
        /\ Len(dp[d].called) = 2
        /\ dp[d].called[1].out = "err"
        /\ dp[d].logged = 1

\* The bytes of mem from address ptr on, up to the first NUL, the end of the
\* memory or limit bytes, whichever comes first.
BytesFrom(mem, ptr, limit) ==
    LET avail == IF ptr < Len(mem) THEN Len(mem) - ptr ELSE 0
        room == IF avail < limit THEN avail ELSE limit
        stop == IF \E k \in 1..room : mem[ptr + k] = 0
                THEN (CHOOSE k \in 1..room :
                         mem[ptr + k] = 0 /\ \A j \in 1..(k - 1) : mem[ptr + j] # 0) - 1
                ELSE room
    IN  [k \in 1..stop |-> mem[ptr + k]]

\* C16: for a non-zero pointer the body is exactly the bytes of the module's
\* memory from the pointer up to, not including, the first NUL byte, cut at
\* the limit when no NUL occurs earlier; for pointer 0 the response is 204
\* with no body.
C16_BodyIsBytesUpToNul ==
    (call.fn = "Response" /\ call.done) =>
        IF call.arg.resultPtr = 0
        THEN call.result = [status |-> 204, body |-> <<>>]
        ELSE /\ call.result.status = 200
             /\ call.result.body =
                   BytesFrom(call.arg.mem, call.arg.resultPtr, BodyLimit)

\* C11: in no execution is the runtime of a Module released while one of
\* that Module's bus subscriptions is still registered.
C11_NoRuntimeReleaseWithSubscription ==
    \A i \in Ids : RuntimeClosed(i) => Range(mods[i].cleanups) \cap subs = {}

Broadcasts == hub'.bc.flip # hub.bc.flip

\* The clients registered on a topic when the step starts.
OnTopic(topic) == {c \in Conns : \E t \in Topics : t = topic /\ c \in hub.clients[t]}

\* C21: a Broadcast enqueues the message for each client of the topic whose
\* queue holds fewer than SendCap entries and drops it for the others, which
\* stay registered; no queue ever holds more than SendCap entries.
C21_BroadcastEnqueuesOrDrops ==
    [][/\ \A c \in Conns : Len(hub'.send[c]) <= SendCap
       /\ Broadcasts =>
             /\ hub'.clients = hub.clients
             /\ \A c \in OnTopic(hub'.bc.topic) :
                   hub'.send[c] = IF Len(hub.send[c]) < SendCap
                                  THEN Append(hub.send[c], hub'.bc.msg)
                                  ELSE hub.send[c]]_vars

\* A client whose queue is full, registered on the topic just broadcast to,
\* beside a client that got the message.
C21_Witness ==
    \E c, d \in Conns :
        /\ c # d
        /\ {c, d} \subseteq OnTopic(hub.bc.topic)
        /\ Len(hub.send[c]) = SendCap
        /\ hub.send[c][SendCap] # hub.bc.msg
        /\ Len(hub.send[d]) < SendCap
        /\ hub.send[d] # <<>>
        /\ hub.send[d][Len(hub.send[d])] = hub.bc.msg

\* C22 as stated: a Broadcast appends the message, once, to the queue of
\* each client registered on the topic and changes the queue of no other
\* client; with no client on the topic it changes nothing.
C22_BroadcastReachesEveryClient ==
    [][Broadcasts =>
          /\ \A c \in OnTopic(hub'.bc.topic) :
                hub'.send[c] = Append(hub.send[c], hub'.bc.msg)
          /\ \A c \in Conns \ OnTopic(hub'.bc.topic) :
                hub'.send[c] = hub.send[c]
          /\ <<hub.clients, hub.pump>>' = <<hub.clients, hub.pump>>
          /\ OnTopic(hub'.bc.topic) = {} => hub'.send = hub.send]_vars

\* C22 amended: a Broadcast appends the message, once, to the queue of each
\* client registered on the topic whose queue is not full, and changes the
\* queue of no other client; with no client on the topic it changes nothing.
C22_BroadcastReachesEveryClientWithRoom ==
    [][Broadcasts =>
          /\ \A c \in OnTopic(hub'.bc.topic) :
                Len(hub.send[c]) < SendCap =>
                   hub'.send[c] = Append(hub.send[c], hub'.bc.msg)
          /\ \A c \in Conns :
                (c \notin OnTopic(hub'.bc.topic) \/ Len(hub.send[c]) >= SendCap)
                   => hub'.send[c] = hub.send[c]
          /\ <<hub.clients, hub.pump>>' = <<hub.clients, hub.pump>>
          /\ OnTopic(hub'.bc.topic) = {} => hub'.send = hub.send]_vars

\* One client on the topic just broadcast to holds the message last in its
\* queue while a client on the other topic, with what it held before, does not.
C22_Witness ==
    \E c, d \in Conns :
        /\ c \in OnTopic(hub.bc.topic)
        /\ hub.send[c] # <<>>
        /\ hub.send[c][Len(hub.send[c])] = hub.bc.msg
        /\ d \notin OnTopic(hub.bc.topic)
        /\ IsRegistered(d)
        /\ hub.send[d] # <<>>
        /\ \A k \in 1..Len(hub.send[d]) : hub.send[d][k] # hub.bc.msg

\* The drain() call returned the hint h.
IsHint(r, h) == r.kind = "hint" /\ r.ms = h

\* A Drain call is under way or over.
InDrain == call.fn = "Drain" /\ call.result.pc # "enter"

\* C23: without a drain export Drain returns at once, no guest call made and
\* no time spent; with it, no drain() call follows a call whose hint was 0,
\* and Drain has returned nil as soon as a call gave the hint 0.
C23_DrainEndsAtFirstZeroHint ==
    InDrain =>
        LET r == call.result
        IN  /\ ~ call.arg.exported =>
                  call.done /\ r.calls = 0 /\ r.elapsed = 0 /\ r.ret = "nil"
            /\ call.arg.exported /\ r.pc # "call" => r.calls >= 1
            /\ r.calls = Len(r.hints)
            /\ \A k \in 1..Len(r.hints) :
                  IsHint(r.hints[k], 0) =>
                     /\ k = Len(r.hints)
                     /\ call.done /\ r.ret = "nil" /\ ~ r.timedOut

\* Drain returned after a second drain() call gave the hint 0, the first
\* one having given a positive hint.
C23_Witness ==
    /\ InDrain /\ call.done
    /\ Len(call.result.hints) = 2
    /\ \E h \in 1..MaxHint : IsHint(call.result.hints[1], h)
    /\ IsHint(call.result.hints[2], 0)

\* Every drain() call so far returned a positive hint.
AlwaysPositive ==
    \A k \in 1..Len(call.result.hints) :
        \E h \in 1..MaxHint : IsHint(call.result.hints[k], h)

\* C24: against a guest whose drain() returns a positive hint on every call,
\* Drain never runs longer than the budget plus one sleep and one call, makes
\* a bounded number of calls, and returns nil through the budget check with
\* the budget exceeded; its caller then goes on to Close.
C24_DrainEndsAfterBudget ==
    (InDrain /\ call.arg.exported /\ AlwaysPositive) =>
        LET r == call.result
        IN  /\ r.elapsed <= call.arg.timeout + MaxHint + MaxCallTime
            /\ r.calls <= call.arg.timeout + 2
            /\ call.done =>
                  /\ r.timedOut /\ r.ret = "nil"
                  /\ r.elapsed > call.arg.timeout
                  /\ r.pc \in {"returned", "closed"}

\* Scenario S3 in ticks: hint 1 on every call, budget 3, Drain over at 4 and
\* the caller at Close.
C24_Witness ==
    /\ InDrain /\ call.result.pc = "closed"
    /\ call.arg.timeout = 3
    /\ AlwaysPositive
    /\ \A k \in 1..Len(call.result.hints) : IsHint(call.result.hints[k], 1)
    /\ call.result.timedOut
    /\ call.result.elapsed = 4

C25_StopDrainsAndClosesEveryModule ==
    (call.fn = "StopServer" /\ call.done) =>
        \A i \in call.held :
            \E k \in 2..Len(mods[i].hist) :
                mods[i].hist[k] = "close" /\ mods[i].hist[k - 1] = "drain"

\* The callback has called malloc(L) and then on_message(P, L) for the
\* delivery, P being what malloc returned, and on_message found the payload.
Delivered(d) ==
    LET cb == call.result.cb[d]
        L == Len(call.arg.payload[d])
    IN  /\ cb.calls = <<<<"malloc", L>>, <<"on_message", cb.ptr, L>>>>
        /\ cb.seen = call.arg.payload[d]

\* C27 as stated: for each message delivered to the guest the host has, when
\* the callback ends, called malloc(L) and then on_message(P, L) with the
\* payload at P.
C27_EveryMessageReachesOnMessage ==
    \A d \in Deliveries : CallbackAt(d, "end") => Delivered(d)

\* The allocation of the delivery was made with malloc, succeeded, and gave
\* room for the payload inside the memory.
Allocated(d) ==
    LET cb == call.result.cb[d]
    IN  /\ call.arg.malloc
        /\ cb.pc \in {"on_message", "end"}
        /\ cb.calls # <<>>
        /\ cb.ptr + Len(call.arg.payload[d]) <= call.arg.size
        /\ \/ cb.pc = "on_message"
           \/ Len(cb.calls) = 2

\* C27 amended: when the guest exports malloc, malloc returns without error
\* an offset with room for the payload, and hands out no region twice, the
\* callback calls malloc(L), writes, then calls on_message(P, L), and
\* on_message finds the payload at P; in every case malloc(L) is the first
\* guest call and on_message follows it with the offset malloc gave.
C27_AllocatedMessageReachesOnMessage ==
    call.fn = "callback" =>
        \A d \in Deliveries :
            LET cb == call.result.cb[d]
                L == Len(call.arg.payload[d])
            IN  /\ cb.calls # <<>> => cb.calls[1] = <<MallocFn, L>>
                /\ Len(cb.calls) <= 2
                /\ Len(cb.calls) = 2 => cb.calls[2] = <<"on_message", cb.ptr, L>>
                /\ (cb.pc = "end" /\ Allocated(d)
                        /\ call.arg.allocator = "fresh") => Delivered(d)

\* Both deliveries ended with on_message having found its own payload, the
\* second allocation having been made before the first write.
C27_Witness ==
    /\ call.fn = "callback"
    /\ call.arg.allocator = "fresh"
    /\ \A d \in Deliveries : CallbackAt(d, "end") /\ Delivered(d)
    /\ call.arg.payload["v1"] # <<>>
    /\ call.result.cb["v1"].ptr > 0

\* C28: every subscribe call of a guest that exports on_message, whatever
\* guest call it was made during, has created its subscription and appended
\* exactly one canceller to the Module's cleanups.
C28_EverySubscribeCallRegisters ==
    (call.fn = "guest" /\ call.arg.on_message) =>
        /\ Len(call.result.cleanups) = Len(call.result.asked)
        /\ \A k \in 1..Len(call.result.asked) :
              call.result.cleanups[k] = call.result.asked[k].topic

\* C29: when Close has returned, the cleanups have run in the reverse of the
\* order in which they were registered.
C29_CleanupsRunInReverseOrder ==
    (call.fn = "Close" /\ call.done) =>
        LET r == call.result
            n == Len(r.cleanups)
        IN  /\ Len(r.ran) = n
            /\ \A k \in 1..n : r.ran[k] = r.cleanups[n + 1 - k]

\* The positions of the middleware list that hold a Module of the name.
EntriesOf(name) ==
    {k \in 1..Len(middlewares) : mods[middlewares[k].Module].name = name}

C31_NoGuestCallUnderLock ==
    call.fn = "locks" =>
        \A r \in call.result.ran :
            /\ r.op = "guest" => r.held = {}
            /\ \A h \in r.held :
                  r.arg \in (IF h.mode = "w" THEN {"replace", "wsHub"}
                             ELSE {"lookup", "applyPipeline"})

\* A swap that replaced a Module under the write lock has drained it, and a
\* dispatch that took both read locks has called handle, all guest calls
\* made with no lock held.
C31_Witness ==
    /\ call.fn = "locks"
    /\ \E r \in call.result.ran : r.arg = "replace" /\ r.held # {}
    /\ \E r \in call.result.ran : r.arg = "lookup" /\ r.held # {}
    /\ \E r \in call.result.ran : r.arg = "drain" /\ r.held = {}
    /\ \E r \in call.result.ran : r.arg = "handle" /\ r.held = {}
    /\ \E r \in call.result.ran : r.arg = "on_message"

\* The delivery ended at the failure of the write into guest memory.
WriteFailed(d) ==
    LET cb == call.result.cb[d]
    IN  /\ cb.pc = "end"
        /\ Len(cb.calls) = 1
        /\ cb.ptr + Len(call.arg.payload[d]) > call.arg.size

\* on_message was called for the delivery.
OnMessageCalled(d) ==
    \E k \in 1..Len(call.result.cb[d].calls) :
        call.result.cb[d].calls[k][1] = "on_message"

\* What follows a dropped delivery: the subscription is registered and the
\* callback runs for a message not yet delivered.
StillSubscribed ==
    /\ call.result.sub
    /\ \A o \in Deliveries : CallbackAt(o, "start") => ENABLED CallbackStart(o)

\* C32 as stated: a delivery to a guest without malloc, or whose write into
\* guest memory failed, ends without on_message, with the subscription
\* registered and later messages attempted.
C32_NoMallocOrWriteFailureDropsOne ==
    call.fn = "callback" =>
        \A d \in Deliveries :
            (CallbackAt(d, "end") /\ (~ call.arg.malloc \/ WriteFailed(d))) =>
                ~ OnMessageCalled(d) /\ StillSubscribed

\* C32 amended: a delivery to a guest with neither malloc nor alloc, or whose
\* write into guest memory failed, ends without on_message, with the
\* subscription registered and later messages attempted.
C32_NoAllocatorOrWriteFailureDropsOne ==
    call.fn = "callback" =>
        \A d \in Deliveries :
            (CallbackAt(d, "end") /\ (MallocFn = "nil" \/ WriteFailed(d))) =>
                ~ OnMessageCalled(d) /\ StillSubscribed

\* One delivery was dropped at the write, and on_message has been called for
\* the other message of the same subscription.
C32_Witness ==
    /\ call.fn = "callback"
    /\ WriteFailed("v2")
    /\ CallbackAt("v1", "end")
    /\ OnMessageCalled("v1")
    /\ call.result.sub

\* Both deliveries to a guest with neither malloc nor alloc were dropped
\* without a guest call, the second after the first.
C32_WitnessNoAllocator ==
    /\ call.fn = "callback"
    /\ MallocFn = "nil"
    /\ \A d \in Deliveries : CallbackAt(d, "end") /\ call.result.cb[d].calls = <<>>
    /\ call.result.sub

\* The region has bytes outside the guest memory.
Outside(region) ==
    region.len > 0 /\ region.ptr + region.len > Len(call.arg.mem)

\* C33: after a publish or log call whose topic, payload or message region
\* lies outside guest memory, nothing was published to the bus and nothing
\* was forwarded to the logging sink.
C33_OutOfRangeRegionDropsOperation ==
    (call.fn = "host" /\ call.done
        /\ (Outside(call.arg.topic) \/ Outside(call.arg.payload)
                \/ Outside(call.arg.msg))) =>
        call.result.bus = <<>> /\ call.result.sink = <<>>

\* C34: a dispatch whose response read runs out of the resolved Module's
\* memory is answered 500.
C34_OutOfBoundsResponseIs500 ==
    (call.fn = "Response" /\ call.done /\ call.arg.resultPtr # 0
        /\ Len(call.result.body) < BodyLimit
        /\ call.arg.resultPtr + Len(call.result.body) >= Len(call.arg.mem)) =>
        call.result.status = 500

\* C35: a Load that fails leaves the endpoint map and the middleware list
\* as they were and leaves registered no subscription the guest made while
\* it was instantiated.
C35_FailedLoadLeavesNoSubscription ==
    [][\A t \in SwapThreads :
          Step(t, "load", "done") =>
              /\ modules' = modules
              /\ middlewares' = middlewares
              /\ subs' = subs]_vars

\* C36: when the new instance of a swap makes its subscriptions, those of
\* the instances registered under the name have been cancelled.
C36_OldCancelledBeforeNewSubscribes ==
    [][\A t \in SwapThreads :
          (Step(t, "load", "init") /\ mods'[sw'[t].new].cleanups # <<>>) =>
              \A p \in Registered(sw[t].name) :
                  Range(mods[p].cleanups) \cap subs = {}]_vars

\* C37: the client map holds no topic with an empty client set; in every
\* state unregister(topic, conn) removes a registered client from its topic
\* and the topic's entry with the last client, changes no other topic, and
\* changes nothing for a client that is not registered under the topic.
C37_NoEmptyTopicEntry ==
    /\ \A t \in hub.keys : hub.clients[t] # {}
    /\ \A t \in Topics, c \in Conns :
          LET h == unregister(hub, t, c)
              registered == t \in hub.keys /\ c \in hub.clients[t]
          IN  IF ~ registered THEN h = hub
              ELSE /\ h.clients[t] = hub.clients[t] \ {c}
                   /\ h.keys = IF hub.clients[t] = {c} THEN hub.keys \ {t}
                                ELSE hub.keys
                   /\ \A u \in Topics \ {t} : h.clients[u] = hub.clients[u]
                   /\ h.send = hub.send /\ h.pump = hub.pump

\* The last client of topic "t" was unregistered after a broadcast reached
\* it, and the map keeps only the entry of "u".
C37_Witness ==
    /\ hub.keys = {"u"}
    /\ hub.clients["u"] # {}
    /\ hub.bc.topic = "t"
    /\ \E c \in Conns : ~ IsRegistered(c) /\ hub.send[c] # <<>>

\* C38: no client is registered whose writer has terminated: a failed write
\* ends the writer and takes the client out of the relay.
C38_NoClientWithoutWriter ==
    \A c \in Conns : IsRegistered(c) => hub.pump[c]

\* C39: while the HTTP server accepts requests (started, Shutdown not yet
\* called) no Module in the endpoint map or the middleware list has been
\* closed.
C39_NoClosedInstanceInTable ==
    (srv.started /\ ~ srv.shutdown) =>
        \A i \in Ids : InTable(i) => ~ Closed(i)

\* C40: no step removes a key from the endpoint map, and a dispatch is
\* answered 404 only when the map has no entry for its name.
C40_EndpointKeyIsNeverRemoved ==
    [][/\ \A n \in Names : modules[n] # NoMod => modules'[n] # NoMod
       /\ \A d \in DispThreads :
             (dp'[d].status = 404 /\ dp[d].status # 404) =>
                 Lookup(dp'[d].name) = NoMod]_vars

\* A swap of a registered endpoint name failed at Load, the name is still in
\* the map, and a dispatch to it found the instance.
C40_Witness ==
    \E t \in Reloader, d \in DispThreads :
        /\ spc[t] = "done" /\ sw[t].ret = "loaderr"
        /\ modules[sw[t].name] # NoMod
        /\ dpc[d] = "done" /\ dp[d].name = sw[t].name
        /\ dp[d].status \in {200, 204}
        /\ dp[d].from = modules[sw[t].name]

============================================================================
